---- MODULE Spec2Model ----
(***************************************************************************)
(* Model of the GlobalChatBot orchestration engine: context assembly      *)
(* (backend/conversation_utils.py), the three turn handlers               *)
(* (backend/chat_handlers.py), tool fan-out (backend/tool_utils.py) and   *)
(* the two event-stream generators (server/endpoints.py).                 *)
(*                                                                         *)
(* Text is modelled as a sequence of one-character tokens.  "NL" is the   *)
(* newline, " " the blank; a fixed text of the program (a prompt, an      *)
(* error prefix) is one token.                                            *)
(***************************************************************************)
EXTENDS Integers, Sequences, FiniteSets, TLC

VARIABLES redis, mongo, scn, turn, bld, ws, fn

vars == <<redis, mongo, scn, turn, bld, ws, fn>>

turnVars == <<redis, mongo, scn, turn>>

(***************************************************************************)
(* Bounds of the model.                                                    *)
(***************************************************************************)
MaxHistory == 22

MaxDups == 2

(***************************************************************************)
(* Program constants.                                                      *)
(***************************************************************************)
ContextCap == 21

KeepLast == 20

(***************************************************************************)
(* Text helpers.                                                           *)
(***************************************************************************)
NL == "NL"

Whitespace == {"NL", " "}

\* bool(s.strip()): the text has a character that is not whitespace
NonBlank(s) == \E k \in 1..Len(s) : s[k] \notin Whitespace

\* the head s[:n] in place of the tail
LastN_head(s, n) == IF Len(s) <= n THEN s ELSE SubSeq(s, 1, n)

\* Python s[-n:] for n > 0
LastN(s, n) == IF Len(s) <= n THEN s ELSE SubSeq(s, Len(s) - n + 1, Len(s))

Msg(role, content) == [role |-> role, content |-> content]

SYSTEM_PROMPT == <<"SYS">>

(***************************************************************************)
(* build_conversation_messages                                             *)
(***************************************************************************)
\* the list without the de-duplication of the code
assemble_messages_all(query, history, system_prompt) ==
    <<Msg("system", system_prompt)>> \o history \o <<Msg("user", query)>>

\* the list before trimming: system prompt, the history entries whose
\* content is not the query, the query
assemble_messages(query, history, system_prompt) ==
    <<Msg("system", system_prompt)>>
        \o SelectSeq(history, LAMBDA m : m.content # query)
        \o <<Msg("user", query)>>

build_conversation_messages_notrim(query, history, system_prompt) ==
    assemble_messages(query, history, system_prompt)

build_conversation_messages(query, history, system_prompt) ==
    LET messages == assemble_messages(query, history, system_prompt)
    IN  IF Len(messages) > ContextCap
        THEN <<messages[1]>> \o LastN(messages, KeepLast)
        ELSE messages

(***************************************************************************)
(* Fixed texts of the handlers.                                            *)
(***************************************************************************)
SUMMARY_SYSTEM_PROMPT == <<"SUM">>

enhanced_system == <<"ENH">>

\* "I couldn't process your request."
FallbackText == <<"F">>

\* progress_msg = "\n\n"
progress_msg == <<NL, NL>>

\* summary_header = "\n\n\n"
summary_header == <<NL, NL, NL>>

\* f"... Error in chat request: {str(e)}"
ErrorTextPost == <<"XP">>

\* f"... Streaming error: {str(e)}"
ErrorTextStream == <<"XS">>

\* f"... Voice streaming error: {str(e)}"
ErrorTextVoice == <<"XV">>

Punctuation == {".", "!", "?", NL}

RECURSIVE Concat(_)
\* "".join(parts)
Concat(parts) == IF parts = <<>> THEN <<>> ELSE Head(parts) \o Concat(Tail(parts))

RECURSIVE JoinNL(_)
\* "\n".join(parts)
JoinNL(parts) ==
    IF parts = <<>> THEN <<>>
    ELSE IF Len(parts) = 1 THEN Head(parts)
    ELSE Head(parts) \o <<NL>> \o JoinNL(Tail(parts))

(***************************************************************************)
(* Tool layer (backend/tool_utils.py, backend/api_functions.py).  A tool  *)
(* call carries its id, the function name the model asked for, the state  *)
(* of its argument string ("ok": JSON holding the required argument,      *)
(* "missing": JSON without it, "badjson": not JSON) and the way the       *)
(* provider behind the tool turns out: "nokey" (API key not configured),  *)
(* "status" (HTTP status other than 200), "raises" (the request raises),  *)
(* "items" (200 with entries) or "noitems" (200 without entries).         *)
(* A result is a value of one of four Python shapes: a dict with an       *)
(* "error" key, a dict without one, a non-empty str, or a list whose      *)
(* entries are result dicts ("item") or {"error": ...} dicts ("error").   *)
(***************************************************************************)
ToolNames == {"get_bio", "search_images", "get_news", "web_search", "get_datetime", "other"}

ArgStates == {"ok", "missing", "badjson"}

Providers == {"nokey", "status", "raises", "items", "noitems"}

ErrorDict == [tag |-> "error", items |-> <<>>]

Payload == [tag |-> "payload", items |-> <<>>]

Text == [tag |-> "text", items |-> <<>>]

List(items) == [tag |-> "list", items |-> items]

\* every return of get_bio is a non-empty str, failures included
get_bio(env) == Text

search_images(env) ==
    IF env \in {"nokey", "status", "raises"} THEN List(<<"error">>)
    ELSE IF env = "items" THEN List(<<"item">>) ELSE List(<<>>)

get_news(env) ==
    IF env \in {"nokey", "status", "raises"} THEN List(<<"error">>)
    ELSE IF env = "items" THEN List(<<"item">>) ELSE List(<<>>)

web_search(env) ==
    IF env \in {"nokey", "status", "raises"} THEN List(<<"error">>)
    ELSE IF env = "items" THEN List(<<"item">>) ELSE List(<<>>)

get_datetime == Payload

\* the functions called with args["..."], which raises KeyError when absent
RequiredArg == {"get_bio", "search_images", "get_news", "web_search"}

ToolKinds == {"ok", "err", "badargs"}

\* the calls of a turn: a web search that returns entries, a web search
\* whose required argument is missing, or one whose arguments are not JSON
ToolCall(id, kind) ==
    [id |-> id, name |-> "web_search",
     args |-> IF kind = "ok" THEN "ok" ELSE IF kind = "err" THEN "missing" ELSE "badjson",
     env |-> "items"]

\* json.loads(tool_call.function.arguments or "{}") succeeds
ArgsParse(call) == call.args # "badjson"

handle_function_call(call) ==
    IF call.name \in RequiredArg /\ call.args = "missing" THEN ErrorDict
    ELSE IF call.name = "get_bio" THEN get_bio(call.env)
    ELSE IF call.name = "search_images" THEN search_images(call.env)
    ELSE IF call.name = "get_news" THEN get_news(call.env)
    ELSE IF call.name = "web_search" THEN web_search(call.env)
    ELSE IF call.name = "get_datetime" THEN get_datetime
    ELSE Text

NoResultsText == <<"N", NL, NL>>

format_function_result(result) ==
    IF result.tag = "error" THEN <<"E", NL, NL>>
    ELSE IF result.tag = "list" /\ result.items = <<>> THEN NoResultsText
    ELSE <<>>

\* str(tool_result["result"])
ResultText(result) == IF result.tag = "error" THEN <<"e">> ELSE <<"p">>

ToolResult(call, result) ==
    [tool_call_id |-> call.id, result |-> result,
     formatted |-> format_function_result(result)]


(***************************************************************************)
(* Specification SpecBuild: build_conversation_messages applied to         *)
(* histories of every length up to MaxHistory.  Entry k of the history    *)
(* has its own content (the number k as text) unless k is one of at most  *)
(* MaxDups positions whose content repeats the query.                     *)
(***************************************************************************)
BQuery == <<"q">>

BEntry(k, dups) ==
    Msg(IF k % 2 = 1 THEN "user" ELSE "assistant",
        IF k \in dups THEN BQuery ELSE <<ToString(k)>>)

BHistory(n, dups) == [k \in 1..n |-> BEntry(k, dups)]

BldIdle == [pc |-> "idle", query |-> <<>>, history |-> <<>>, assembled |-> <<>>,
            messages |-> <<>>]

InitBuild ==
    /\ ws = <<>>
    /\ fn = <<>>
    /\ redis = <<>>
    /\ mongo = <<>>
    /\ scn = <<>>
    /\ turn = <<>>
    /\ \E n \in 0..MaxHistory :
         \E dups \in {D \in SUBSET (1..n) : Cardinality(D) <= MaxDups} :
            bld = [pc |-> "input", query |-> BQuery,
                   history |-> BHistory(n, dups), assembled |-> <<>>,
                   messages |-> <<>>]

BuildApply ==
    /\ bld.pc = "input"
    /\ bld' = [bld EXCEPT !.pc = "built",
                          !.assembled = assemble_messages(
                                           bld.query, bld.history, SYSTEM_PROMPT),
                          !.messages = build_conversation_messages(
                                          bld.query, bld.history, SYSTEM_PROMPT)]
    /\ UNCHANGED <<turnVars, ws, fn>>

NextBuild == BuildApply

SpecBuild == InitBuild /\ [][NextBuild]_vars


(***************************************************************************)
(* Specification SpecTools: one iteration of the loop of                  *)
(* _process_tool_calls applied to every tool call: the argument string is *)
(* parsed, the function is dispatched, the result is formatted.           *)
(***************************************************************************)
ToolCalls == [id : {1}, name : ToolNames, args : ArgStates, env : Providers]

InitTools ==
    /\ redis = <<>>
    /\ mongo = <<>>
    /\ scn = <<>>
    /\ turn = <<>>
    /\ bld = <<>>
    /\ ws = <<>>
    /\ \E call \in ToolCalls :
         fn = [pc |-> "parse", call |-> call, result |-> Payload, formatted |-> <<>>]

\* fn_args = json.loads(tool_call.function.arguments or "{}")
ToolsParse ==
    /\ fn.pc = "parse"
    /\ fn' = [fn EXCEPT !.pc = IF ArgsParse(fn.call) THEN "handle" ELSE "raised"]
    /\ UNCHANGED <<turnVars, bld, ws>>

\* function_result = await handle_function_call(fn_name, fn_args)
ToolsHandle ==
    /\ fn.pc = "handle"
    /\ fn' = [fn EXCEPT !.pc = "format", !.result = handle_function_call(fn.call)]
    /\ UNCHANGED <<turnVars, bld, ws>>

\* formatted_result = format_function_result(fn_name, function_result)
ToolsFormat ==
    /\ fn.pc = "format"
    /\ fn' = [fn EXCEPT !.pc = "formatted", !.formatted = format_function_result(fn.result)]
    /\ UNCHANGED <<turnVars, bld, ws>>

NextTools == ToolsParse \/ ToolsHandle \/ ToolsFormat

SpecTools == InitTools /\ [][NextTools]_vars

(***************************************************************************)
(* Turn handlers (backend/chat_handlers.py).                               *)
(*                                                                         *)
(* turn[t] holds the locals of the handler serving request t, the chunk   *)
(* it has yielded and that its consumer has not taken yet (out), and the  *)
(* state of the consumer: the events it emitted and its own buffer.       *)
(* calls is the history of the external calls the turn initiated.         *)
(* scn holds what the LLM answers: the content and tool calls of the      *)
(* decision call and the token deltas of the answer.                      *)
(***************************************************************************)
Turns == {"t1", "t2"}

Sessions == {"s1", "s2"}

Channels == {"post", "sse", "sse2", "voice"}

MaxTools == 2

MaxDeltas == 2

HistoryLimit == 10

SummaryContext == 5

SummaryMinFlush == 5

ChatMinFlush == 8

V2FlushSize == 100

Query == <<"q">>

DeltaSet == {<<"a">>, <<".">>, <<" ">>}

SeqsUpTo(S, n) == UNION {[1..k -> S] : k \in 0..n}

ToolCallSeqs ==
    {[k \in 1..Len(kinds) |-> ToolCall(k, kinds[k])] : kinds \in SeqsUpTo(ToolKinds, MaxTools)}

Scenarios ==
    [content : {<<>>, <<"a">>}, tool_calls : ToolCallSeqs, deltas : SeqsUpTo(DeltaSet, MaxDeltas)]

Stored(role, content, t) == [role |-> role, content |-> content, by |-> t]

\* an earlier turn with the same query, and a list longer than the read limit
InitialHistories ==
    { <<>>,
      <<Stored("user", Query, "t0"), Stored("assistant", <<"h">>, "t0")>>,
      [k \in 1..(HistoryLimit + 1) |->
          Stored(IF k % 2 = 1 THEN "user" ELSE "assistant", <<ToString(k)>>, "t0")] }

NoMsg == [content |-> <<>>, tool_calls |-> <<>>]

IdleTurn ==
    [chan |-> "none", session |-> "none", query |-> <<>>, pc |-> "idle",
     hist |-> <<>>, messages |-> <<>>, msg |-> NoMsg, i |-> 0, results |-> <<>>, shown |-> <<>>,
     summary_messages |-> <<>>, full |-> <<>>, buf |-> <<>>, d |-> 0,
     out |-> <<>>, ret |-> <<>>, calls |-> <<>>, userStored |-> FALSE,
     cpc |-> "none", events |-> <<>>, cbuf |-> <<>>, detected |-> FALSE]

Init ==
    /\ \E h \in InitialHistories : redis = [s \in Sessions |-> h]
    /\ mongo = <<>>
    /\ scn \in Scenarios
    /\ turn = [t \in Turns |-> IdleTurn]
    /\ bld = BldIdle
    /\ ws = <<>>
    /\ fn = <<>>

\* a handler that runs on as a task of its own, whatever its consumer does
Running_detached(t) == turn[t].out = <<>>

\* the handler's code runs: a generator runs only while its consumer waits
\* for the next chunk
Running(t) ==
    /\ turn[t].out = <<>>
    /\ turn[t].chan \in {"sse", "sse2"} => turn[t].cpc = "iter"

Event(kind, data) == [event |-> kind, data |-> data]

\* yield chunk: handed to the consumer; the voice generator has no caller
\* in the repository, its chunks are recorded as the text events it yields
Emit(r, chunk) ==
    IF r.chan = "voice"
    THEN [r EXCEPT !.events = Append(@, Event("text", chunk))]
    ELSE [r EXCEPT !.out = <<chunk>>]

\* the except clause of the handler
Fail(r) ==
    IF r.chan = "post" THEN [r EXCEPT !.pc = "error", !.ret = <<ErrorTextPost>>]
    ELSE IF r.chan = "voice" THEN Emit([r EXCEPT !.pc = "error"], ErrorTextVoice)
    ELSE Emit([r EXCEPT !.pc = "error"], ErrorTextStream)

\* the endpoint of a channel receives request t and starts its handler
Request(t, chan, session) ==
    /\ turn[t].pc = "idle"
    /\ turn' = [turn EXCEPT ![t] =
                  [IdleTurn EXCEPT !.chan = chan, !.session = session,
                                   !.query = Query, !.pc = "read",
                                   !.cpc = IF chan = "sse" THEN "iter"
                                           ELSE IF chan = "sse2" THEN "start"
                                           ELSE "none"]]
    /\ UNCHANGED <<redis, mongo, scn, bld, ws, fn>>

get_conversation_history(list, limit) ==
    LET recent == LastN(list, limit)
        kept == SelectSeq(recent, LAMBDA m : m.role \in {"user", "assistant"})
    IN  [k \in 1..Len(kept) |-> Msg(kept[k].role, kept[k].content)]

\* the order the code does not have: the turn's own user message is in the
\* list when the history is read
ReadHistory_late(t) ==
    /\ turn[t].pc = "read" /\ Running(t)
    /\ \E ok \in BOOLEAN :
         turn' = [turn EXCEPT ![t].pc = "store_user",
                              ![t].hist = IF ok THEN get_conversation_history(
                                                       Append(redis[turn[t].session],
                                                              Stored("user", turn[t].query, t)),
                                                       HistoryLimit)
                                          ELSE <<>>]
    /\ UNCHANGED <<redis, mongo, scn, bld, ws, fn>>

\* conversation_history = await get_conversation_history(...): a store
\* failure is caught inside and gives the empty list
ReadHistory(t) ==
    /\ turn[t].pc = "read" /\ Running(t)
    /\ \E ok \in BOOLEAN :
         turn' = [turn EXCEPT ![t].pc = "store_user",
                              ![t].hist = IF ok THEN get_conversation_history(
                                                       redis[turn[t].session], HistoryLimit)
                                          ELSE <<>>]
    /\ UNCHANGED <<redis, mongo, scn, bld, ws, fn>>

\* a write that sets the list to the new message instead of appending it
StoreUser_set(t) ==
    /\ turn[t].pc = "store_user" /\ Running(t)
    /\ \E ok \in BOOLEAN :
         IF ok
         THEN /\ redis' = [redis EXCEPT ![turn[t].session] =
                              <<Stored("user", turn[t].query, t)>>]
              /\ turn' = [turn EXCEPT ![t].pc = "decide", ![t].userStored = TRUE,
                                       ![t].messages = build_conversation_messages(
                                           turn[t].query, turn[t].hist, SYSTEM_PROMPT)]
         ELSE /\ turn' = [turn EXCEPT ![t] = Fail(turn[t])]
              /\ UNCHANGED redis
    /\ UNCHANGED <<mongo, scn, bld, ws, fn>>

\* await _store_user_message(...)
StoreUser(t) ==
    /\ turn[t].pc = "store_user" /\ Running(t)
    /\ \E ok \in BOOLEAN :
         IF ok
         THEN /\ redis' = [redis EXCEPT ![turn[t].session] =
                              Append(@, Stored("user", turn[t].query, t))]
              /\ turn' = [turn EXCEPT ![t].pc = "decide", ![t].userStored = TRUE,
                                       ![t].messages = build_conversation_messages(
                                           turn[t].query, turn[t].hist, SYSTEM_PROMPT)]
         ELSE /\ turn' = [turn EXCEPT ![t] = Fail(turn[t])]
              /\ UNCHANGED redis
    /\ UNCHANGED <<mongo, scn, bld, ws, fn>>

\* a handler that repeats the failed decision call once before giving up
Decide_retry(t) ==
    LET r == [turn[t] EXCEPT !.calls = Append(@, <<"llm", "decide">>)]
        message == [content |-> scn.content, tool_calls |-> scn.tool_calls]
    IN  /\ turn[t].pc = "decide" /\ Running(t)
        /\ \E ok \in BOOLEAN :
             turn' = [turn EXCEPT ![t] =
                IF ~ok THEN Fail([r EXCEPT !.calls = Append(@, <<"llm", "decide">>)])
                ELSE IF message.tool_calls # <<>>
                THEN [r EXCEPT !.msg = message, !.i = 1, !.pc = "tool"]
                ELSE IF r.chan = "post"
                THEN [r EXCEPT !.msg = message, !.pc = "save",
                               !.full = IF message.content # <<>> THEN message.content
                                        ELSE FallbackText]
                ELSE [r EXCEPT !.msg = message, !.pc = "chat_create"]]
        /\ UNCHANGED <<redis, mongo, scn, bld, ws, fn>>

\* first completion call: tools or a direct answer
Decide(t) ==
    LET r == [turn[t] EXCEPT !.calls = Append(@, <<"llm", "decide">>)]
        message == [content |-> scn.content, tool_calls |-> scn.tool_calls]
    IN  /\ turn[t].pc = "decide" /\ Running(t)
        /\ \E ok \in BOOLEAN :
             turn' = [turn EXCEPT ![t] =
                IF ~ok THEN Fail(r)
                ELSE IF message.tool_calls # <<>>
                THEN [r EXCEPT !.msg = message, !.i = 1, !.pc = "tool"]
                ELSE IF r.chan = "post"
                THEN [r EXCEPT !.msg = message, !.pc = "save",
                               !.full = IF message.content # <<>> THEN message.content
                                        ELSE FallbackText]
                ELSE [r EXCEPT !.msg = message, !.pc = "chat_create"]]
        /\ UNCHANGED <<redis, mongo, scn, bld, ws, fn>>

CurrentCall(r) == r.msg.tool_calls[r.i]

\* fn_args = json.loads(...); the streaming handler then yields progress_msg
ToolParse(t) ==
    LET r == turn[t]
    IN  /\ r.pc = "tool" /\ Running(t)
        /\ turn' = [turn EXCEPT ![t] =
              IF ~ArgsParse(CurrentCall(r)) THEN Fail(r)
              ELSE IF r.chan \in {"sse", "sse2"}
              THEN Emit([r EXCEPT !.pc = "tool_call", !.full = @ \o progress_msg],
                        progress_msg)
              ELSE [r EXCEPT !.pc = "tool_call"]]
        /\ UNCHANGED <<redis, mongo, scn, bld, ws, fn>>

\* the concurrent fan-out the code does not do: every remaining call starts
ToolStart_all(t) ==
    LET r == turn[t]
        n == Len(r.msg.tool_calls)
        starts == [k \in 1..(n - r.i + 1) |-> <<"tool_start", r.msg.tool_calls[r.i + k - 1].id>>]
    IN  /\ r.pc = "tool_call" /\ Running(t)
        /\ turn' = [turn EXCEPT ![t].pc = "tool_wait", ![t].calls = @ \o starts]
        /\ UNCHANGED <<redis, mongo, scn, bld, ws, fn>>

\* function_result = await handle_function_call(fn_name, fn_args): the call starts
ToolStart(t) ==
    LET r == turn[t]
    IN  /\ r.pc = "tool_call" /\ Running(t)
        /\ turn' = [turn EXCEPT ![t].pc = "tool_wait",
                                ![t].calls = Append(@, <<"tool_start", CurrentCall(r).id>>)]
        /\ UNCHANGED <<redis, mongo, scn, bld, ws, fn>>

\* handle_function_call returns; the result is formatted and recorded
ToolReturn(t) ==
    LET r == turn[t]
        call == CurrentCall(r)
        res == ToolResult(call, handle_function_call(call))
        n == Len(r.msg.tool_calls)
        r1 == [r EXCEPT !.calls = Append(@, <<"tool_end", call.id>>),
                        !.results = Append(@, res),
                        !.shown = IF NonBlank(res.formatted) THEN Append(@, res.formatted) ELSE @,
                        !.i = @ + 1,
                        !.pc = IF r.i < n THEN "tool"
                               ELSE IF r.chan = "post" THEN "synth" ELSE "header"]
    IN  /\ r.pc = "tool_wait" /\ Running(t)
        /\ turn' = [turn EXCEPT ![t] =
              IF r.chan \in {"sse", "sse2"} /\ NonBlank(res.formatted)
              THEN Emit([r1 EXCEPT !.full = @ \o res.formatted], res.formatted)
              ELSE r1]
        /\ UNCHANGED <<redis, mongo, scn, bld, ws, fn>>

ToolMessage(res) ==
    [role |-> "tool", tool_call_id |-> res.tool_call_id, content |-> ResultText(res.result)]

\* the context of the synthesis call
SummaryMessages(r) ==
    <<Msg("system", SUMMARY_SYSTEM_PROMPT)>>
        \o SelectSeq(LastN(r.hist, SummaryContext), LAMBDA m : m.content # r.query)
        \o <<Msg("user", r.query),
             [role |-> "assistant", content |-> r.msg.content, tool_calls |-> r.msg.tool_calls]>>
        \o [k \in 1..Len(r.results) |-> ToolMessage(r.results[k])]

\* handle_chat_request: the whole-response synthesis call and the assembly
\* of final_response
Synthesize(t) ==
    LET r == [turn[t] EXCEPT !.calls = Append(@, <<"llm", "synth">>),
                             !.summary_messages = SummaryMessages(turn[t])]
        ai_response == Concat(scn.deltas)
    IN  /\ turn[t].pc = "synth" /\ Running(t)
        /\ \E ok \in BOOLEAN :
             turn' = [turn EXCEPT ![t] =
                IF ~ok THEN Fail(r)
                ELSE [r EXCEPT !.pc = "save",
                               !.full = IF r.shown # <<>>
                                        THEN JoinNL(r.shown) \o <<NL, NL, NL>> \o ai_response
                                        ELSE <<NL, NL>> \o ai_response]]
        /\ UNCHANGED <<redis, mongo, scn, bld, ws, fn>>

RECURSIVE EmitAll(_, _)
EmitAll(r, chunks) ==
    IF chunks = <<>> THEN r
    ELSE EmitAll(Emit([r EXCEPT !.full = @ \o Head(chunks)], Head(chunks)), Tail(chunks))

\* the generators yield summary_header; the voice generator first yields the
\* formatted results
Header(t) ==
    LET r == turn[t]
        r1 == IF r.chan = "voice" THEN EmitAll(r, r.shown) ELSE r
    IN  /\ r.pc = "header" /\ Running(t)
        /\ turn' = [turn EXCEPT ![t] =
              Emit([r1 EXCEPT !.pc = "sum_create", !.full = @ \o summary_header,
                              !.summary_messages = SummaryMessages(r)],
                   summary_header)]
        /\ UNCHANGED <<redis, mongo, scn, bld, ws, fn>>

\* the streamed synthesis call is created
SumCreate(t) ==
    LET r == [turn[t] EXCEPT !.calls = Append(@, <<"llm", "synth">>)]
    IN  /\ turn[t].pc = "sum_create" /\ Running(t)
        /\ \E ok \in BOOLEAN :
             turn' = [turn EXCEPT ![t] =
                IF ~ok THEN Fail(r) ELSE [r EXCEPT !.pc = "sum_iter", !.d = 1, !.buf = <<>>]]
        /\ UNCHANGED <<redis, mongo, scn, bld, ws, fn>>

\* no tools: the generators make a second, streamed call
ChatCreate(t) ==
    LET r == [turn[t] EXCEPT !.calls = Append(@, <<"llm", "chat">>),
                             !.messages = build_conversation_messages(
                                             turn[t].query, turn[t].hist, enhanced_system)]
    IN  /\ turn[t].pc = "chat_create" /\ Running(t)
        /\ \E ok \in BOOLEAN :
             turn' = [turn EXCEPT ![t] =
                IF ~ok THEN Fail(r) ELSE [r EXCEPT !.pc = "chat_iter", !.d = 1, !.buf = <<>>]]
        /\ UNCHANGED <<redis, mongo, scn, bld, ws, fn>>

\* a generator that never persists its response
AfterStream_never(r) == "done"

\* if full_response.strip(): save, else log a warning
AfterStream(r) == IF NonBlank(r.full) THEN "save" ELSE "done"

\* one minimum size for both paths
MinFlush_same(r) == ChatMinFlush

\* len(chunk_buffer) >= 5 in the summary loop, >= 8 in the direct-answer loop
MinFlush(r) == IF r.pc = "sum_iter" THEN SummaryMinFlush ELSE ChatMinFlush

\* one token delta of the streamed answer
StreamDelta(t) ==
    LET r == turn[t]
        content == scn.deltas[r.d]
        r1 == [r EXCEPT !.full = @ \o content, !.buf = @ \o content, !.d = @ + 1]
    IN  /\ r.pc \in {"sum_iter", "chat_iter"} /\ Running(t)
        /\ r.d <= Len(scn.deltas)
        /\ \E ok \in BOOLEAN :
             turn' = [turn EXCEPT ![t] =
                IF ~ok THEN Fail(r)
                ELSE IF r.chan = "voice" THEN Emit(r1, content)
                ELSE IF Len(r1.buf) >= MinFlush(r) \/ content[Len(content)] \in Punctuation
                THEN Emit([r1 EXCEPT !.buf = <<>>], r1.buf)
                ELSE r1]
        /\ UNCHANGED <<redis, mongo, scn, bld, ws, fn>>

\* the token stream ends: the rest of the buffer is yielded
StreamEnd(t) ==
    LET r == turn[t]
    IN  /\ r.pc \in {"sum_iter", "chat_iter"} /\ Running(t)
        /\ r.d > Len(scn.deltas)
        /\ turn' = [turn EXCEPT ![t] =
              IF r.chan # "voice" /\ r.buf # <<>>
              THEN Emit([r EXCEPT !.pc = "persist", !.buf = <<>>], r.buf)
              ELSE [r EXCEPT !.pc = AfterStream(r)]]
        /\ UNCHANGED <<redis, mongo, scn, bld, ws, fn>>

\* the generator is resumed after its last chunk
Resume(t) ==
    /\ turn[t].pc = "persist" /\ Running(t)
    /\ turn' = [turn EXCEPT ![t].pc = AfterStream(turn[t])]
    /\ UNCHANGED <<redis, mongo, scn, bld, ws, fn>>

\* a handler that goes on to the history append when the archive insert fails
SaveConversation_lenient(t) ==
    LET r == turn[t]
    IN  /\ r.pc = "save" /\ Running(t)
        /\ \E ok \in BOOLEAN :
             IF ok
             THEN /\ mongo' = Append(mongo, [user |-> r.query, assistant |-> r.full,
                                             session_id |-> r.session, by |-> t])
                  /\ turn' = [turn EXCEPT ![t].pc = "store_assistant"]
             ELSE /\ turn' = [turn EXCEPT ![t].pc = "store_assistant"]
                  /\ UNCHANGED mongo
        /\ UNCHANGED <<redis, scn, bld, ws, fn>>

\* await _save_conversation(...)
SaveConversation(t) ==
    LET r == turn[t]
    IN  /\ r.pc = "save" /\ Running(t)
        /\ \E ok \in BOOLEAN :
             IF ok
             THEN /\ mongo' = Append(mongo, [user |-> r.query, assistant |-> r.full,
                                             session_id |-> r.session, by |-> t])
                  /\ turn' = [turn EXCEPT ![t].pc = "store_assistant"]
             ELSE /\ turn' = [turn EXCEPT ![t] = Fail(r)]
                  /\ UNCHANGED mongo
        /\ UNCHANGED <<redis, scn, bld, ws, fn>>

\* await _store_assistant_message(...); handle_chat_request returns
StoreAssistant(t) ==
    LET r == turn[t]
    IN  /\ r.pc = "store_assistant" /\ Running(t)
        /\ \E ok \in BOOLEAN :
             IF ok
             THEN /\ redis' = [redis EXCEPT ![r.session] =
                                  Append(@, Stored("assistant", r.full, t))]
                  /\ turn' = [turn EXCEPT ![t].pc = "done",
                                          ![t].ret = IF r.chan = "post" THEN <<r.full>> ELSE <<>>]
             ELSE /\ turn' = [turn EXCEPT ![t] = Fail(r)]
                  /\ UNCHANGED redis
        /\ UNCHANGED <<mongo, scn, bld, ws, fn>>

(***************************************************************************)
(* Event-stream generators (server/endpoints.py).                          *)
(***************************************************************************)
Polls == {"connected", "disconnected", "raises"}

Exhausted(r) == r.out = <<>> /\ r.pc \in {"done", "error"}

IsData(e) == e.event = "data"

DataEvents(events) == SelectSeq(events, IsData)

\* a disconnect that skips the chunk and keeps iterating instead of leaving the loop
SseOnChunk_continue(t) ==
    LET r == turn[t]
        chunk == r.out[1]
    IN  /\ r.chan = "sse" /\ r.cpc = "iter" /\ r.out # <<>>
        /\ \E poll \in Polls :
             turn' = [turn EXCEPT ![t] =
                IF poll = "raises"
                THEN [r EXCEPT !.out = <<>>, !.cpc = "closed",
                               !.events = @ \o <<Event("error", ErrorTextStream),
                                                 Event("end", "[ERROR]")>>]
                ELSE IF poll = "disconnected"
                THEN [r EXCEPT !.out = <<>>, !.detected = TRUE]
                ELSE IF NonBlank(chunk)
                THEN [r EXCEPT !.out = <<>>, !.events = Append(@, Event("data", chunk))]
                ELSE [r EXCEPT !.out = <<>>]]
        /\ UNCHANGED <<redis, mongo, scn, bld, ws, fn>>

\* sse_generator, one iteration of its loop: poll the connection, then send
\* the chunk as a data event unless it is blank; a detected disconnect leaves
\* the loop and the generator yields its end event
SseOnChunk(t) ==
    LET r == turn[t]
        chunk == r.out[1]
    IN  /\ r.chan = "sse" /\ r.cpc = "iter" /\ r.out # <<>>
        /\ \E poll \in Polls :
             turn' = [turn EXCEPT ![t] =
                IF poll = "raises"
                THEN [r EXCEPT !.out = <<>>, !.cpc = "closed",
                               !.events = @ \o <<Event("error", ErrorTextStream),
                                                 Event("end", "[ERROR]")>>]
                ELSE IF poll = "disconnected"
                THEN [r EXCEPT !.out = <<>>, !.cpc = "closed", !.detected = TRUE,
                               !.events = Append(@, Event("end", "[DONE]"))]
                ELSE IF NonBlank(chunk)
                THEN [r EXCEPT !.out = <<>>, !.events = Append(@, Event("data", chunk))]
                ELSE [r EXCEPT !.out = <<>>]]
        /\ UNCHANGED <<redis, mongo, scn, bld, ws, fn>>

\* a generator that closes without its end event
SseEnd_silent(t) ==
    LET r == turn[t]
    IN  /\ r.chan = "sse" /\ r.cpc = "iter" /\ Exhausted(r)
        /\ turn' = [turn EXCEPT ![t].cpc = "closed"]
        /\ UNCHANGED <<redis, mongo, scn, bld, ws, fn>>

\* sse_generator: the handler's generator is exhausted
SseEnd(t) ==
    LET r == turn[t]
    IN  /\ r.chan = "sse" /\ r.cpc = "iter" /\ Exhausted(r)
        /\ turn' = [turn EXCEPT ![t].cpc = "closed",
                                ![t].events = Append(@, Event("end", "[DONE]"))]
        /\ UNCHANGED <<redis, mongo, scn, bld, ws, fn>>

\* the task serving the response is cancelled while a generator waits in one
\* of its awaits: except asyncio.CancelledError
Cancel(t) ==
    LET r == turn[t]
    IN  /\ r.chan \in {"sse", "sse2"} /\ r.cpc = "iter"
        /\ ~(r.out = <<>> /\ r.pc = "done")
        /\ turn' = [turn EXCEPT ![t].cpc = "closed", ![t].out = <<>>,
                                ![t].events = Append(@,
                                    IF r.chan = "sse" THEN Event("end", "[CANCELLED]")
                                    ELSE Event("cancelled", "Stream was cancelled"))]
        /\ UNCHANGED <<redis, mongo, scn, bld, ws, fn>>

\* enhanced_sse_generator: the initial start event
Sse2Start(t) ==
    /\ turn[t].chan = "sse2" /\ turn[t].cpc = "start"
    /\ turn' = [turn EXCEPT ![t].cpc = "iter",
                            ![t].events = Append(@, Event("start", ""))]
    /\ UNCHANGED <<redis, mongo, scn, bld, ws, fn>>

Contains(s, c) == \E k \in 1..Len(s) : s[k] = c

\* a generator that drops blank chunks as sse_generator does
Sse2OnChunk_strip(t) ==
    LET r == turn[t]
        chunk == r.out[1]
        buffer == r.cbuf \o chunk
    IN  /\ r.chan = "sse2" /\ r.cpc = "iter" /\ r.out # <<>>
        /\ \E poll \in Polls, late \in BOOLEAN :
             turn' = [turn EXCEPT ![t] =
                IF poll = "raises"
                THEN [r EXCEPT !.out = <<>>, !.cpc = "closed",
                               !.events = Append(@, Event("error", "Stream error"))]
                ELSE IF poll = "disconnected"
                THEN [r EXCEPT !.out = <<>>, !.cpc = "rest", !.detected = TRUE]
                ELSE IF late
                THEN [r EXCEPT !.out = <<>>, !.cpc = "rest",
                               !.events = Append(@, Event("timeout", "Stream timeout"))]
                ELSE IF ~NonBlank(chunk)
                THEN [r EXCEPT !.out = <<>>]
                ELSE IF Len(buffer) >= V2FlushSize \/ Contains(chunk, NL)
                THEN [r EXCEPT !.out = <<>>, !.cbuf = <<>>,
                               !.events = Append(@, Event("data", buffer))]
                ELSE [r EXCEPT !.out = <<>>, !.cbuf = buffer]]
        /\ UNCHANGED <<redis, mongo, scn, bld, ws, fn>>

\* enhanced_sse_generator, one iteration of its loop; late says that more
\* than 30 seconds passed since the last chunk
Sse2OnChunk(t) ==
    LET r == turn[t]
        chunk == r.out[1]
        buffer == r.cbuf \o chunk
    IN  /\ r.chan = "sse2" /\ r.cpc = "iter" /\ r.out # <<>>
        /\ \E poll \in Polls, late \in BOOLEAN :
             turn' = [turn EXCEPT ![t] =
                IF poll = "raises"
                THEN [r EXCEPT !.out = <<>>, !.cpc = "closed",
                               !.events = Append(@, Event("error", "Stream error"))]
                ELSE IF poll = "disconnected"
                THEN [r EXCEPT !.out = <<>>, !.cpc = "rest", !.detected = TRUE]
                ELSE IF late
                THEN [r EXCEPT !.out = <<>>, !.cpc = "rest",
                               !.events = Append(@, Event("timeout", "Stream timeout"))]
                ELSE IF Len(buffer) >= V2FlushSize \/ Contains(chunk, NL)
                THEN [r EXCEPT !.out = <<>>, !.cbuf = <<>>,
                               !.events = Append(@, Event("data", buffer))]
                ELSE [r EXCEPT !.out = <<>>, !.cbuf = buffer]]
        /\ UNCHANGED <<redis, mongo, scn, bld, ws, fn>>

\* enhanced_sse_generator after its loop: the remaining buffer, then complete
Sse2Finish(t) ==
    LET r == turn[t]
    IN  /\ r.chan = "sse2"
        /\ r.cpc = "rest" \/ (r.cpc = "iter" /\ Exhausted(r))
        /\ turn' = [turn EXCEPT ![t].cpc = "closed", ![t].cbuf = <<>>,
                                ![t].events = @ \o (IF r.cbuf # <<>>
                                                    THEN <<Event("data", r.cbuf)>> ELSE <<>>)
                                                \o <<Event("complete", "")>>]
        /\ UNCHANGED <<redis, mongo, scn, bld, ws, fn>>

Handler(t) ==
    \/ ReadHistory(t) \/ StoreUser(t) \/ Decide(t)
    \/ ToolParse(t) \/ ToolStart(t) \/ ToolReturn(t)
    \/ Synthesize(t) \/ Header(t) \/ SumCreate(t) \/ ChatCreate(t)
    \/ StreamDelta(t) \/ StreamEnd(t) \/ Resume(t)
    \/ SaveConversation(t) \/ StoreAssistant(t)

Consumer(t) ==
    \/ SseOnChunk(t) \/ SseEnd(t) \/ Cancel(t)
    \/ Sse2Start(t) \/ Sse2OnChunk(t) \/ Sse2Finish(t)

(***************************************************************************)
(* Spec: one request on any of the four channels, with every outcome of   *)
(* the LLM, the tools, the stores and the connection.  The sessions start *)
(* alike, so the request is made on the first one.                        *)
(***************************************************************************)
Next ==
    \/ \E chan \in Channels : Request("t1", chan, "s1")
    \/ Handler("t1")
    \/ Consumer("t1")

Spec == Init /\ [][Next]_vars

(***************************************************************************)
(* SpecPair: the same query is sent to POST /chatbot on one session and,  *)
(* once that turn has completed, to GET /chatbot/stream on a second        *)
(* session with the same stored history; the LLM and the tools answer     *)
(* both turns alike (scn).                                                 *)
(***************************************************************************)
RequestPost == Request("t1", "post", "s1")

RequestStream == turn["t1"].pc = "done" /\ Request("t2", "sse", "s2")

NextPair ==
    \/ RequestPost
    \/ RequestStream
    \/ \E t \in Turns : Handler(t) \/ SseOnChunk(t) \/ SseEnd(t) \/ Cancel(t)

SpecPair == Init /\ [][NextPair]_vars


(***************************************************************************)
(* SpecRace: two turns run at the same time on one session, each on       *)
(* POST /chatbot or GET /chatbot/stream, in every interleaving of their   *)
(* steps.  The model answers with a text, after no tool call or after one *)
(* that succeeds.                                                         *)
(***************************************************************************)
RaceChannels == {"post", "sse"}

RaceScenarios ==
    [content : {<<"a">>}, tool_calls : {<<>>, <<ToolCall(1, "ok")>>}, deltas : {<<<<"a">>>>}]

InitRace ==
    /\ \E h \in InitialHistories : redis = [s \in Sessions |-> h]
    /\ mongo = <<>>
    /\ scn \in RaceScenarios
    /\ turn = [t \in Turns |-> IdleTurn]
    /\ bld = BldIdle
    /\ ws = <<>>
    /\ fn = <<>>

NextRace ==
    \E t \in Turns :
        \/ \E chan \in RaceChannels : Request(t, chan, "s1")
        \/ Handler(t)
        \/ SseOnChunk(t) \/ SseEnd(t) \/ Cancel(t)

SpecRace == InitRace /\ [][NextRace]_vars

(***************************************************************************)
(* SpecStream: one request on /chatbot/stream or /chatbot/stream-v2 with  *)
(* token deltas of one, four and a hundred characters, so that the        *)
(* handler's buffer crosses its two minimum sizes and the v2 buffer its   *)
(* flush size; the decision call answers directly or asks for one tool.   *)
(***************************************************************************)
MaxStreamDeltas == 3

StreamChannels == {"sse", "sse2"}

LongDelta == [k \in 1..V2FlushSize |-> "x"]

StreamDeltaSet == {<<"a">>, <<".">>, <<NL>>, <<"a", "b", "c", "d">>, LongDelta}

StreamScenarios ==
    [content : {<<"a">>}, tool_calls : {<<>>, <<ToolCall(1, "ok")>>},
     deltas : SeqsUpTo(StreamDeltaSet, MaxStreamDeltas)]

InitStream ==
    /\ redis = [s \in Sessions |-> <<>>]
    /\ mongo = <<>>
    /\ scn \in StreamScenarios
    /\ turn = [t \in Turns |-> IdleTurn]
    /\ bld = BldIdle
    /\ ws = <<>>
    /\ fn = <<>>

NextStream ==
    \/ \E chan \in StreamChannels : Request("t1", chan, "s1")
    \/ ReadHistory("t1") \/ StoreUser("t1") \/ Decide("t1")
    \/ ToolParse("t1") \/ ToolStart("t1") \/ ToolReturn("t1")
    \/ Header("t1") \/ SumCreate("t1") \/ ChatCreate("t1")
    \/ StreamDelta("t1") \/ StreamEnd("t1") \/ Resume("t1")
    \/ SaveConversation("t1") \/ StoreAssistant("t1")
    \/ Consumer("t1")

SpecStream == InitStream /\ [][NextStream]_vars

(***************************************************************************)
(* SpecClear: one turn on POST /chatbot or GET /chatbot/stream, and       *)
(* DELETE /conversations/{session_id} requests on its session at any      *)
(* moment of the turn.                                                    *)
(***************************************************************************)
\* clear_conversation_history: redis.delete of the session's list; a store
\* failure is answered with HTTP 500 and leaves the list
clear_conversation_history(session) ==
    /\ \E ok \in BOOLEAN :
         redis' = IF ok THEN [redis EXCEPT ![session] = <<>>] ELSE redis
    /\ UNCHANGED <<mongo, scn, turn, bld, ws, fn>>

NextClear ==
    \/ \E chan \in RaceChannels : Request("t1", chan, "s1")
    \/ Handler("t1")
    \/ SseOnChunk("t1") \/ SseEnd("t1") \/ Cancel("t1")
    \/ clear_conversation_history("s1")

SpecClear == InitRace /\ [][NextClear]_vars


(***************************************************************************)
(* web_search (backend/api_functions.py): the rewriting of the query and  *)
(* the choice of the date filter.  A query is a sequence of characters;   *)
(* `word in query.lower()` is a substring test on the lower-cased query.  *)
(***************************************************************************)
Upper == <<"A", "B", "C", "D", "E", "F", "G", "H", "I", "J", "K", "L", "M",
            "N", "O", "P", "Q", "R", "S", "T", "U", "V", "W", "X", "Y", "Z">>

Lowercase == <<"a", "b", "c", "d", "e", "f", "g", "h", "i", "j", "k", "l", "m",
            "n", "o", "p", "q", "r", "s", "t", "u", "v", "w", "x", "y", "z">>

\* str.lower() on one character
LowerChar(c) ==
    IF \E i \in 1..Len(Upper) : Upper[i] = c
    THEN Lowercase[CHOOSE i \in 1..Len(Upper) : Upper[i] = c]
    ELSE c

Lower(s) == [k \in 1..Len(s) |-> LowerChar(s[k])]

\* Python `sub in s` for strings
In(sub, s) == \E i \in 0..(Len(s) - Len(sub)) : SubSeq(s, i + 1, i + Len(sub)) = sub

\* any(word in query.lower() for word in words)
AnyIn(words, query) == \E word \in words : In(word, Lower(query))

financial_keywords ==
    {<<"n", "i", "f", "t", "y">>,
     <<"s", "e", "n", "s", "e", "x">>,
     <<"s", "t", "o", "c", "k">>,
     <<"p", "r", "i", "c", "e">>,
     <<"i", "n", "d", "e", "x">>,
     <<"b", "s", "e">>,
     <<"n", "s", "e">>,
     <<"m", "a", "r", "k", "e", "t">>}

\* the list of the second branch of the augmentation
news_words ==
    {<<"n", "e", "w", "s">>,
     <<"u", "p", "d", "a", "t", "e">>,
     <<"l", "a", "t", "e", "s", "t">>,
     <<"b", "r", "e", "a", "k", "i", "n", "g">>}

\* the list of the third branch of the augmentation and of the first
\* branch of the date filter
now_words ==
    {<<"n", "o", "w">>,
     <<"c", "u", "r", "r", "e", "n", "t">>,
     <<"t", "o", "d", "a", "y">>}

\* the list of the second branch of the date filter
recent_words ==
    {<<"l", "a", "t", "e", "s", "t">>,
     <<"r", "e", "c", "e", "n", "t">>,
     <<"n", "e", "w", "s">>,
     <<"u", "p", "d", "a", "t", "e">>}

is_financial_query(query) ==
    \E keyword \in financial_keywords : In(Lower(keyword), Lower(query))

\* the suffixes the four f-strings put after the query
SuffixDefault == <<" ", "YEAR", " latest recent">>

SuffixFinancial == <<" ", "MONTH YEAR", " live current today">>

SuffixNews == <<" ", "YEAR", " today latest news">>

SuffixNow == <<" ", "YEAR", " current today">>

\* the now test ahead of the news test
enhanced_query_nowfirst(query) ==
    IF is_financial_query(query) THEN query \o SuffixFinancial
    ELSE IF AnyIn(now_words, query) THEN query \o SuffixNow
    ELSE IF AnyIn(news_words, query) THEN query \o SuffixNews
    ELSE query \o SuffixDefault

enhanced_query(query) ==
    IF is_financial_query(query) THEN query \o SuffixFinancial
    ELSE IF AnyIn(news_words, query) THEN query \o SuffixNews
    ELSE IF AnyIn(now_words, query) THEN query \o SuffixNow
    ELSE query \o SuffixDefault

\* the week test ahead of the day test
tbs_weekfirst(query) ==
    IF AnyIn(recent_words, query) THEN "qdr:w"
    ELSE IF AnyIn(now_words, query) \/ is_financial_query(query) THEN "qdr:d"
    ELSE "qdr:m"

\* params["tbs"]
tbs(query) ==
    IF AnyIn(now_words, query) \/ is_financial_query(query) THEN "qdr:d"
    ELSE IF AnyIn(recent_words, query) THEN "qdr:w"
    ELSE "qdr:m"

(***************************************************************************)
(* Specification SpecSearch: web_search applied to every query of at most *)
(* MaxWords words of a vocabulary that has words of each keyword list, in *)
(* lower, upper and mixed case, a word that only contains a keyword       *)
(* ("snow") and a word without any.                                       *)
(***************************************************************************)
MaxWords == 2

Vocabulary ==
    {<<"s", "t", "o", "c", "k">>,
     <<"N", "i", "f", "t", "y">>,
     <<"n", "o", "w">>,
     <<"T", "o", "d", "a", "y">>,
     <<"c", "u", "r", "r", "e", "n", "t">>,
     <<"l", "a", "t", "e", "s", "t">>,
     <<"r", "e", "c", "e", "n", "t">>,
     <<"N", "E", "W", "S">>,
     <<"u", "p", "d", "a", "t", "e">>,
     <<"b", "r", "e", "a", "k", "i", "n", "g">>,
     <<"s", "n", "o", "w">>,
     <<"c", "a", "t">>}

RECURSIVE JoinSpace(_)
\* " ".join(words)
JoinSpace(words) ==
    IF words = <<>> THEN <<>>
    ELSE IF Len(words) = 1 THEN Head(words)
    ELSE Head(words) \o <<" ">> \o JoinSpace(Tail(words))

SearchQueries == {JoinSpace(words) : words \in SeqsUpTo(Vocabulary, MaxWords)}

InitSearch ==
    /\ redis = <<>>
    /\ mongo = <<>>
    /\ scn = <<>>
    /\ turn = <<>>
    /\ bld = <<>>
    /\ ws = <<>>
    /\ \E query \in SearchQueries :
         fn = [pc |-> "query", query |-> query, q |-> <<>>, tbs |-> ""]

\* web_search up to the request: params["q"] and params["tbs"] are set
SearchApply ==
    /\ fn.pc = "query"
    /\ fn' = [fn EXCEPT !.pc = "searched", !.q = enhanced_query(fn.query),
                        !.tbs = tbs(fn.query)]
    /\ UNCHANGED <<turnVars, bld, ws>>

NextSearch == SearchApply

SpecSearch == InitSearch /\ [][NextSearch]_vars


(***************************************************************************)
(* Voice channel (server/websocket_handlers.py).  ws holds the two Redis  *)
(* keys of each voice session (the chunk list and the silence counter),   *)
(* the audio handed to the transcription service, and for each connection *)
(* the position of its receive loop, the message in hand, the chunks read *)
(* by handle_end_recording and the messages sent to the client.  A chunk  *)
(* is named after what it holds: decodable speech or silence at 16 kHz,   *)
(* decodable speech at 48 kHz, base64 of bytes torchaudio cannot load, or *)
(* text that is no base64.                                                *)
(***************************************************************************)
VAD_SILENCE_THRESHOLD == 1

MaxMessages == 3

VSessions == {"voice_default", "v2"}

Conns == {"c1", "c2"}

ChunkData == {"speech16", "silent16", "speech48", "undecodable", "notbase64"}

\* base64.b64decode(chunk) returns
B64Valid(data) == data # "notbase64"

\* torchaudio.load(buf) returns
Loads(data) == data \in {"speech16", "silent16", "speech48"}

sample_rate(data) == IF data = "speech48" THEN 48000 ELSE 16000

\* what the voice-activity model says of the chunk
Speech(data) == data \in {"speech16", "speech48"}

\* backend/voice_functions.py declares `global silero_model` and reads it,
\* but nothing binds the name in that module: server/lifespan.py and
\* backend/main.py assign globals of their own modules
silero_model_bound == FALSE

\* NameError ahead of the function's try when the name is unbound; False
\* when the chunk cannot be loaded
detect_voice_activity(data) ==
    IF ~silero_model_bound THEN "raise"
    ELSE IF Loads(data) /\ Speech(data) THEN "speech" ELSE "silence"

\* waveforms is a list, and a list has no attribute routerend
list_has_routerend == FALSE

\* one pass of the decoding loop of handle_end_recording ends without an
\* exception
Decodes(data) == B64Valid(data) /\ Loads(data) /\ list_has_routerend

ClientMessages ==
    [type : {"audio_chunk"}, data : ChunkData \cup {"none"}]
        \cup [type : {"end_recording", "cancel", "other"}, data : {"none"}]

NoClientMessage == [type |-> "none", data |-> "none"]

ConnIdle(session) ==
    [session |-> session, pc |-> "receive", message |-> NoClientMessage, index |-> 0,
     auto |-> FALSE, audio_chunks |-> <<>>, sent |-> <<>>, drained |-> "no"]

InitVoice ==
    /\ redis = <<>>
    /\ mongo = <<>>
    /\ scn = <<>>
    /\ turn = <<>>
    /\ bld = <<>>
    /\ fn = <<>>
    /\ \E session \in VSessions :
         ws = [chunks |-> [s \in VSessions |-> <<>>],
               silence |-> [s \in VSessions |-> 0],
               transcribed |-> <<>>,
               received |-> 0,
               conn |-> [c \in Conns |-> IF c = "c1" THEN ConnIdle("voice_default")
                                         ELSE ConnIdle(session)]]

\* await websocket.send_json({"type": ..., ...})
Send(r, type, info) == [r EXCEPT !.sent = Append(@, [type |-> type, info |-> info])]

\* a cancel that also drops the chunks buffered for the session
Receive_cancelclears(c) ==
    /\ ws.conn[c].pc = "receive"
    /\ ws.received < MaxMessages
    /\ \E m \in ClientMessages :
         LET r == [ws.conn[c] EXCEPT !.message = m, !.index = ws.received + 1,
                                     !.auto = FALSE, !.audio_chunks = <<>>,
                                     !.drained = IF m.type = "audio_chunk" THEN "no" ELSE @]
         IN  ws' = [ws EXCEPT
                !.received = @ + 1,
                !.chunks[r.session] = IF m.type = "cancel" THEN <<>> ELSE @,
                !.conn[c] =
                    IF m.type = "audio_chunk"
                    THEN IF m.data # "none" THEN [r EXCEPT !.pc = "chunk_push"]
                         ELSE Send(r, "chunk_received", <<r.index>>)
                    ELSE IF m.type = "end_recording" THEN [r EXCEPT !.pc = "end_read"]
                    ELSE IF m.type = "cancel" THEN Send(r, "status", <<"Cancelled">>)
                    ELSE r]
    /\ UNCHANGED <<turnVars, bld, fn>>

\* message = await websocket.receive_json(), and the dispatch on its type;
\* a chunk message without data and a cancel message are answered at once
Receive(c) ==
    /\ ws.conn[c].pc = "receive"
    /\ ws.received < MaxMessages
    /\ \E m \in ClientMessages :
         LET r == [ws.conn[c] EXCEPT !.message = m, !.index = ws.received + 1,
                                     !.auto = FALSE, !.audio_chunks = <<>>,
                                     !.drained = IF m.type = "audio_chunk" THEN "no" ELSE @]
         IN  ws' = [ws EXCEPT
                !.received = @ + 1,
                !.conn[c] =
                    IF m.type = "audio_chunk"
                    THEN IF m.data # "none" THEN [r EXCEPT !.pc = "chunk_push"]
                         ELSE Send(r, "chunk_received", <<r.index>>)
                    ELSE IF m.type = "end_recording" THEN [r EXCEPT !.pc = "end_read"]
                    ELSE IF m.type = "cancel" THEN Send(r, "status", <<"Cancelled">>)
                    ELSE r]
    /\ UNCHANGED <<turnVars, bld, fn>>

\* the except branch of handle_audio_chunk: an error message, back to the
\* receive loop
ChunkError(r) == Send([r EXCEPT !.pc = "receive"], "error", <<"exception">>)

\* an end-of-recording that puts the chunks it read back into the list
EndReturn_requeue(w, c) ==
    IF w.conn[c].auto
    THEN [w EXCEPT !.silence[w.conn[c].session] = 0,
                   !.chunks[w.conn[c].session] = w.conn[c].audio_chunks,
                   !.conn[c] = Send([@ EXCEPT !.pc = "receive", !.drained = "yes"],
                                    "chunk_received", <<@.index>>)]
    ELSE [w EXCEPT !.conn[c].pc = "receive", !.conn[c].drained = "yes",
                   !.chunks[w.conn[c].session] = w.conn[c].audio_chunks]

\* handle_end_recording returns: to the receive loop, or into
\* handle_audio_chunk when the chunk triggered it, which deletes the silence
\* key and acknowledges the chunk
EndReturn(w, c) ==
    IF w.conn[c].auto
    THEN [w EXCEPT !.silence[w.conn[c].session] = 0,
                   !.conn[c] = Send([@ EXCEPT !.pc = "receive", !.drained = "yes"],
                                    "chunk_received", <<@.index>>)]
    ELSE [w EXCEPT !.conn[c].pc = "receive", !.conn[c].drained = "yes"]

\* the except branch of handle_end_recording
EndError(w, c) ==
    [EndReturn([w EXCEPT !.conn[c] = Send(@, "error", <<"exception">>)], c)
        EXCEPT !.conn[c].drained = "failed"]

\* await redis.rpush(chunk_key, chunk_data); await redis.expire(chunk_key, 300)
ChunkPush(c) ==
    LET r == ws.conn[c]
    IN  /\ r.pc = "chunk_push"
        /\ \E ok \in BOOLEAN :
             ws' = IF ok
                   THEN [ws EXCEPT !.chunks[r.session] =
                                       Append(@, [data |-> r.message.data, id |-> r.index,
                                                  by |-> c]),
                                   !.conn[c].pc = "chunk_vad"]
                   ELSE [ws EXCEPT !.conn[c] = ChunkError(r)]
        /\ UNCHANGED <<turnVars, bld, fn>>

\* the rest of handle_audio_chunk: the chunk is decoded, classified and the
\* silence counter is brought up to date; at the threshold
\* handle_end_recording is called
ChunkVad(c) ==
    LET r == ws.conn[c]
        data == r.message.data
        is_speech == detect_voice_activity(data)
        silence_count == ws.silence[r.session] + 1
    IN  /\ r.pc = "chunk_vad"
        /\ ws' =
             IF ~B64Valid(data) \/ is_speech = "raise"
             THEN [ws EXCEPT !.conn[c] = ChunkError(r)]
             ELSE IF is_speech = "speech"
             THEN [ws EXCEPT !.silence[r.session] = 0,
                             !.conn[c] = Send(Send(r, "vad", <<TRUE>>),
                                              "chunk_received", <<r.index>>)]
             ELSE IF silence_count >= VAD_SILENCE_THRESHOLD
             THEN [ws EXCEPT !.silence[r.session] = silence_count,
                             !.conn[c] = [Send(r, "vad", <<FALSE>>) EXCEPT
                                              !.pc = "end_read", !.auto = TRUE]]
             ELSE [ws EXCEPT !.silence[r.session] = silence_count,
                             !.conn[c] = Send(Send(r, "vad", <<FALSE>>),
                                              "chunk_received", <<r.index>>)]
        /\ UNCHANGED <<turnVars, bld, fn>>

\* audio_chunks = await redis.lrange(chunk_key, 0, -1)
EndRead(c) ==
    LET r == ws.conn[c]
    IN  /\ r.pc = "end_read"
        /\ \E ok \in BOOLEAN :
             ws' = IF ok
                   THEN [ws EXCEPT !.conn[c].audio_chunks = ws.chunks[r.session],
                                   !.conn[c].pc = "end_delete"]
                   ELSE EndError(ws, c)
        /\ UNCHANGED <<turnVars, bld, fn>>

\* the delete that is left out: the chunk list stays
EndDelete_keep(c) ==
    LET r == ws.conn[c]
    IN  /\ r.pc = "end_delete"
        /\ \E ok \in BOOLEAN :
             ws' = IF ok
                   THEN [ws EXCEPT !.conn[c].pc = "end_process"]
                   ELSE EndError(ws, c)
        /\ UNCHANGED <<turnVars, bld, fn>>

\* await redis.delete(chunk_key)
EndDelete(c) ==
    LET r == ws.conn[c]
    IN  /\ r.pc = "end_delete"
        /\ \E ok \in BOOLEAN :
             ws' = IF ok
                   THEN [ws EXCEPT !.chunks[r.session] = <<>>,
                                   !.conn[c].pc = "end_process"]
                   ELSE EndError(ws, c)
        /\ UNCHANGED <<turnVars, bld, fn>>

BatchData(audio_chunks) == [k \in 1..Len(audio_chunks) |-> audio_chunks[k].data]

\* an error message in place of the status
EmptyBatchReply_error(r) == Send(r, "error", <<"No audio received">>)

\* if not audio_chunks: a status message
EmptyBatchReply(r) == Send(r, "status", <<"No audio received">>)

\* a status message in place of the error
InvalidChunkReply_status(r) == Send(r, "status", <<"Invalid audio chunk format">>)

\* the except branch of the decoding loop: an error message
InvalidChunkReply(r) == Send(r, "error", <<"Invalid audio chunk format">>)

Transcripts == {<<>>, <<"h", "i">>}

\* handle_end_recording from `if not audio_chunks` on: the decoding loop
\* returns at the first chunk whose pass raises; the sample rates are
\* compared, the audio is concatenated and transcribed, the transcript is
\* sent
EndProcess(c) ==
    LET r == ws.conn[c]
        batch == BatchData(r.audio_chunks)
        sample_rates == {sample_rate(batch[k]) : k \in 1..Len(batch)}
    IN  /\ r.pc = "end_process"
        /\ \E transcript \in Transcripts :
             ws' =
               IF batch = <<>>
               THEN EndReturn([ws EXCEPT !.conn[c] = EmptyBatchReply(r)], c)
               ELSE IF \E k \in 1..Len(batch) : ~Decodes(batch[k])
               THEN EndReturn([ws EXCEPT !.conn[c] = InvalidChunkReply(r)], c)
               ELSE IF Cardinality(sample_rates) > 1
               THEN EndReturn([ws EXCEPT !.conn[c] =
                                  Send(r, "error", <<"Inconsistent audio formats">>)], c)
               ELSE EndReturn([ws EXCEPT
                        !.transcribed = Append(@, batch),
                        !.conn[c] =
                            IF NonBlank(transcript)
                            THEN Send(Send(r, "status", <<"Converting">>),
                                      "transcript", transcript)
                            ELSE Send(Send(r, "status", <<"Converting">>),
                                      "status", <<"Could not understand speech">>)], c)
        /\ UNCHANGED <<turnVars, bld, fn>>

\* receive_json raises WebSocketDisconnect: the loop ends
Disconnect(c) ==
    /\ ws.conn[c].pc = "receive"
    /\ ws' = [ws EXCEPT !.conn[c].pc = "closed"]
    /\ UNCHANGED <<turnVars, bld, fn>>

NextVoice ==
    \E c \in Conns :
        \/ Receive(c)
        \/ ChunkPush(c)
        \/ ChunkVad(c)
        \/ EndRead(c)
        \/ EndDelete(c)
        \/ EndProcess(c)
        \/ Disconnect(c)

SpecVoice == InitVoice /\ [][NextVoice]_vars

(***************************************************************************)
(* SpecVoiceOne: the messages of a session all arrive on one connection.  *)
(***************************************************************************)
NextVoiceOne ==
    \/ Receive("c1")
    \/ ChunkPush("c1")
    \/ ChunkVad("c1")
    \/ EndRead("c1")
    \/ EndDelete("c1")
    \/ EndProcess("c1")
    \/ Disconnect("c1")

SpecVoiceOne == InitVoice /\ [][NextVoiceOne]_vars


(***************************************************************************)
(* GET /conversations/{session_id} (server/endpoints.py).  SpecHistory    *)
(* applies the endpoint to stored lists of 0..MaxStored entries with      *)
(* every limit the route accepts; the read of the store succeeds or       *)
(* raises.                                                                *)
(***************************************************************************)
MaxStored == 3

MinLimit == 1

MaxLimit == 100

StoredList(n) ==
    [k \in 1..n |-> Stored(IF k % 2 = 1 THEN "user" ELSE "assistant", <<ToString(k)>>, "t0")]

ServerError == [status |-> 500, messages |-> <<>>, count |-> 0]

\* the loop over the entries read: json.loads, then
\* parsed_messages.routerend(parsed_msg), an AttributeError that the
\* except json.JSONDecodeError of the loop does not catch
ParseLoop(messages) ==
    IF messages = <<>> \/ list_has_routerend
    THEN [raised |-> FALSE, parsed_messages |-> messages]
    ELSE [raised |-> TRUE, parsed_messages |-> <<>>]

\* the endpoint function get_conversation_history of server/endpoints.py
conversations_endpoint(list, limit, read_ok) ==
    LET messages == LastN(list, limit)
        loop == ParseLoop(messages)
    IN  IF ~read_ok \/ loop.raised THEN ServerError
        ELSE [status |-> 200, messages |-> loop.parsed_messages,
              count |-> Len(loop.parsed_messages)]

InitHistory ==
    /\ redis = <<>>
    /\ mongo = <<>>
    /\ scn = <<>>
    /\ turn = <<>>
    /\ bld = <<>>
    /\ ws = <<>>
    /\ \E n \in 0..MaxStored, limit \in MinLimit..MaxLimit :
         fn = [pc |-> "request", list |-> StoredList(n), limit |-> limit,
               read_ok |-> TRUE, response |-> ServerError]

HistoryGet ==
    /\ fn.pc = "request"
    /\ \E read_ok \in BOOLEAN :
         fn' = [fn EXCEPT !.pc = "returned", !.read_ok = read_ok,
                          !.response = conversations_endpoint(fn.list, fn.limit, read_ok)]
    /\ UNCHANGED <<turnVars, bld, ws>>

NextHistory == HistoryGet

SpecHistory == InitHistory /\ [][NextHistory]_vars

\* C1: for every query and history, the list returned by
\* build_conversation_messages has at most 21 entries.
C1_AtMost21 == bld.pc = "built" => Len(bld.messages) <= 21

\* a history long enough to be trimmed has been assembled
C1_Witness ==
    /\ bld.pc = "built"
    /\ Len(bld.history) = MaxHistory
    /\ Len(bld.messages) = 21


(***************************************************************************)
(* What a turn has persisted.                                              *)
(***************************************************************************)
\* the assistant texts turn t appended to its session's list
AssistantBy(t) ==
    LET own == SelectSeq(redis[turn[t].session],
                         LAMBDA m : m.by = t /\ m.role = "assistant")
    IN  [k \in 1..Len(own) |-> own[k].content]

\* the assistant texts of the archive documents turn t wrote
ArchivedBy(t) ==
    LET own == SelectSeq(mongo, LAMBDA doc : doc.by = t)
    IN  [k \in 1..Len(own) |-> own[k].assistant]

\* C2: for the same query, history and model and tool outputs, the
\* assistant message persisted by handle_chat_request is identical to the
\* one persisted by stream_chat_response, with and without tools.  The
\* model's answer text is the same in both turns and is not blank.
C2_SamePersistedMessage ==
    ( /\ turn["t1"].chan = "post" /\ turn["t1"].pc = "done"
      /\ turn["t2"].chan = "sse" /\ turn["t2"].pc = "done"
      /\ turn["t1"].query = turn["t2"].query
      /\ turn["t1"].hist = turn["t2"].hist
      /\ turn["t1"].msg = turn["t2"].msg
      /\ turn["t1"].results = turn["t2"].results
      /\ NonBlank(Concat(scn.deltas))
      /\ (turn["t1"].msg.tool_calls = <<>> => scn.content = Concat(scn.deltas)) )
    => AssistantBy("t1") = AssistantBy("t2")

\* C3 as stated: a completed turn whose assembled response is non-empty
\* writes exactly one archive document and one assistant message, both
\* carrying the assembled response.
C3_NonEmptyPersistedOnce ==
    \A t \in Turns :
        (turn[t].pc = "done" /\ turn[t].full # <<>>)
        => (ArchivedBy(t) = <<turn[t].full>> /\ AssistantBy(t) = <<turn[t].full>>)

\* C3 amended: a completed turn whose assembled response has a character
\* that is not whitespace writes exactly one archive document and one
\* assistant message, both carrying the assembled response.
C3_NonBlankPersistedOnce ==
    \A t \in Turns :
        (turn[t].pc = "done" /\ NonBlank(turn[t].full))
        => (ArchivedBy(t) = <<turn[t].full>> /\ AssistantBy(t) = <<turn[t].full>>)

\* a streamed turn with a tool call has completed and persisted its response
C3_Witness ==
    /\ turn["t1"].chan = "sse" /\ turn["t1"].pc = "done"
    /\ turn["t1"].msg.tool_calls # <<>>
    /\ NonBlank(turn["t1"].full)
    /\ ArchivedBy("t1") = <<turn["t1"].full>>

\* the model gave no answer text: the synthesis call after tools, the
\* decision call of handle_chat_request without tools, the streamed call of
\* the generators without tools
ModelOutputEmpty(t) ==
    IF turn[t].msg.tool_calls # <<>> \/ turn[t].chan # "post"
    THEN Concat(scn.deltas) = <<>>
    ELSE turn[t].msg.content = <<>>

\* C4: a completed turn whose model output is empty writes nothing to the
\* archive and appends no assistant message.
C4_EmptyWritesNothing ==
    \A t \in Turns :
        (turn[t].pc = "done" /\ ModelOutputEmpty(t))
        => (ArchivedBy(t) = <<>> /\ AssistantBy(t) = <<>>)

ErrorText(t) ==
    IF turn[t].chan = "post" THEN ErrorTextPost
    ELSE IF turn[t].chan = "voice" THEN ErrorTextVoice ELSE ErrorTextStream

\* C5: when a turn aborts with an error after its user message was stored,
\* the error text is persisted as the turn's assistant response in the
\* history list and in the archive.
C5_ErrorTextPersisted ==
    \A t \in Turns :
        (turn[t].pc = "error" /\ turn[t].userStored)
        => (AssistantBy(t) = <<ErrorText(t)>> /\ ArchivedBy(t) = <<ErrorText(t)>>)

EndPayloads == {"[DONE]", "[CANCELLED]", "[ERROR]"}

IsEnd(e) == e.event = "end"

\* C6: every /chatbot/stream response ends with exactly one end event whose
\* payload is "[DONE]", "[CANCELLED]" or "[ERROR]", and nothing is emitted
\* after it.
C6_OneEndSentinel ==
    \A t \in Turns :
        turn[t].chan = "sse" =>
            LET ev == turn[t].events
            IN  /\ \A k \in 1..Len(ev) : IsEnd(ev[k]) => (k = Len(ev) /\ turn[t].cpc = "closed")
                /\ turn[t].cpc = "closed" =>
                      /\ ev # <<>>
                      /\ IsEnd(ev[Len(ev)])
                      /\ ev[Len(ev)].data \in EndPayloads

\* a stream closed by the cancellation sentinel after a data event
C6_Witness ==
    LET ev == turn["t1"].events
    IN  /\ turn["t1"].chan = "sse" /\ turn["t1"].cpc = "closed"
        /\ Len(ev) >= 2
        /\ ev[Len(ev)] = Event("end", "[CANCELLED]")
        /\ IsData(ev[1])

CancellationSentinel(r) ==
    IF r.chan = "sse" THEN Event("end", "[CANCELLED]")
    ELSE Event("cancelled", "Stream was cancelled")

\* C7: when a generator detects a client disconnect between chunks, the
\* terminal event of the stream is the cancellation sentinel.
C7_DisconnectEndsCancelled ==
    \A t \in Turns :
        (turn[t].detected /\ turn[t].cpc = "closed")
        => turn[t].events[Len(turn[t].events)] = CancellationSentinel(turn[t])

\* C8 as stated: after a disconnect was detected, the turn initiates no
\* tool execution and no LLM call, and the stream emits no data event.
C8_NothingAfterDisconnect ==
    [][\A t \in Turns :
          turn[t].detected =>
              /\ turn'[t].calls = turn[t].calls
              /\ DataEvents(turn'[t].events) = DataEvents(turn[t].events)]_vars

\* C8 amended: after a disconnect was detected, the turn initiates no tool
\* execution and no LLM call; /chatbot/stream emits no data event, and
\* /chatbot/stream-v2 emits at most one, carrying the text it had buffered
\* before the detection.
C8_NoCallAfterDisconnect ==
    [][\A t \in Turns :
          turn[t].detected =>
              /\ turn'[t].calls = turn[t].calls
              /\ turn[t].chan = "sse" =>
                    DataEvents(turn'[t].events) = DataEvents(turn[t].events)
              /\ turn[t].chan = "sse2" =>
                    \/ DataEvents(turn'[t].events) = DataEvents(turn[t].events)
                    \/ /\ turn[t].cbuf # <<>>
                       /\ DataEvents(turn'[t].events) =
                             Append(DataEvents(turn[t].events), Event("data", turn[t].cbuf))
                       /\ turn'[t].cbuf = <<>>]_vars

\* a stream closed after a detected disconnect while a tool call of the turn
\* had not been started
C8_Witness ==
    /\ turn["t1"].detected /\ turn["t1"].cpc = "closed"
    /\ turn["t1"].pc = "tool_call"
    /\ turn["t1"].calls = <<<<"llm", "decide">>>>

\* C9: if an LLM, tool or store call fails during a streamed turn on
\* /chatbot/stream, the stream ends with the end event "[ERROR]".
C9_FailureEndsWithError ==
    \A t \in Turns :
        ( /\ turn[t].chan = "sse" /\ turn[t].cpc = "closed"
          /\ turn[t].pc = "error" /\ ~turn[t].detected
          /\ turn[t].events[Len(turn[t].events)] # Event("end", "[CANCELLED]") )
        => turn[t].events[Len(turn[t].events)] = Event("end", "[ERROR]")

IsToolLog(c) == c[1] \in {"tool_start", "tool_end"}

\* call k starts, returns, then call k+1 starts
SequentialLog(tool_calls) ==
    [j \in 1..(2 * Len(tool_calls)) |->
        IF j % 2 = 1 THEN <<"tool_start", tool_calls[(j + 1) \div 2].id>>
        ELSE <<"tool_end", tool_calls[j \div 2].id>>]

IsPrefix(s, u) == Len(s) <= Len(u) /\ s = SubSeq(u, 1, Len(s))

ToolMessages(messages) == SelectSeq(messages, LAMBDA m : m.role = "tool")

\* C10: the tool calls of a turn are executed one at a time in the order the
\* model listed them, and the results handed to synthesis are one per call,
\* in that order, each with the id of its call.
C10_SequentialTools ==
    \A t \in Turns :
        LET r == turn[t]
            tools == ToolMessages(r.summary_messages)
        IN  /\ IsPrefix(SelectSeq(r.calls, IsToolLog), SequentialLog(r.msg.tool_calls))
            /\ r.summary_messages # <<>> =>
                  /\ Len(tools) = Len(r.msg.tool_calls)
                  /\ \A k \in 1..Len(tools) : tools[k].tool_call_id = r.msg.tool_calls[k].id
                  /\ SelectSeq(r.calls, IsToolLog) = SequentialLog(r.msg.tool_calls)

\* synthesis was handed the results of two tool calls, one of them failed
C10_Witness ==
    /\ Len(turn["t1"].msg.tool_calls) = 2
    /\ Len(ToolMessages(turn["t1"].summary_messages)) = 2
    /\ turn["t1"].results[1].result.tag # turn["t1"].results[2].result.tag

(***************************************************************************)
(* C11: a failing tool call (the tool raises, a required argument is      *)
(* missing, or the argument string cannot be parsed) gives an {error}     *)
(* result for that call only and never aborts the turn: no turn that the  *)
(* model sent into the tool loop ends in the handler's error path before  *)
(* the synthesis call is made.                                            *)
(***************************************************************************)
AbortedInToolLoop(t) ==
    /\ turn[t].pc = "error"
    /\ turn[t].msg.tool_calls # <<>>
    /\ \A k \in 1..Len(turn[t].calls) : turn[t].calls[k] # <<"llm", "synth">>

C11_ToolFailureContained == \A t \in Turns : ~AbortedInToolLoop(t)

(***************************************************************************)
(* C12: every tool result that stands for a failure (a caught exception,  *)
(* missing credentials or a provider error of any of the five tools, an   *)
(* unknown tool name) is a dict with an "error" key and is formatted to a *)
(* non-empty inline error marker.                                         *)
(***************************************************************************)
FailedCall(call) ==
    \/ call.name = "other"
    \/ call.name \in RequiredArg /\ call.args = "missing"
    \/ call.name \in RequiredArg /\ call.env \in {"nokey", "status", "raises"}

C12_FailuresErrorTagged ==
    (fn.pc = "formatted" /\ FailedCall(fn.call))
        => (fn.result.tag = "error" /\ fn.formatted # <<>>)


(***************************************************************************)
(* C13: in every handler the history is read before the turn's own user   *)
(* message is appended: once the message is stored, the history the turn  *)
(* uses for context is what get_conversation_history gives for a part of  *)
(* the session's list that ends before the turn's own entry (or the empty *)
(* list of a failed read).                                                *)
(***************************************************************************)
OwnUserEntries(t) ==
    {k \in 1..Len(redis[turn[t].session]) :
        /\ redis[turn[t].session][k].by = t
        /\ redis[turn[t].session][k].role = "user"}

ReadBefore(t, k) ==
    \E j \in 0..(k - 1) :
        turn[t].hist = get_conversation_history(SubSeq(redis[turn[t].session], 1, j),
                                                HistoryLimit)

C13_HistoryExcludesOwnMessage ==
    \A t \in Turns :
        turn[t].userStored =>
            /\ OwnUserEntries(t) # {}
            /\ \A k \in OwnUserEntries(t) : turn[t].hist = <<>> \/ ReadBefore(t, k)

C13_Witness ==
    /\ turn["t1"].userStored
    /\ turn["t1"].hist # <<>>
    /\ turn["t1"].pc = "done"


(***************************************************************************)
(* C14: before trimming, the list assembled by                            *)
(* build_conversation_messages is exactly the system prompt, then every   *)
(* history entry whose content differs from the query, of either role and *)
(* in stored order, then the query as a user message.                     *)
(***************************************************************************)
KeptEntries(history, query) == {k \in 1..Len(history) : history[k].content # query}

\* the place of history entry k among the entries that are kept
Rank(history, query, k) == Cardinality({j \in KeptEntries(history, query) : j <= k})

C14_AssembledList ==
    bld.pc = "built" =>
        LET kept == KeptEntries(bld.history, bld.query)
        IN  /\ Len(bld.assembled) = Cardinality(kept) + 2
            /\ bld.assembled[1] = Msg("system", SYSTEM_PROMPT)
            /\ bld.assembled[Len(bld.assembled)] = Msg("user", bld.query)
            /\ \A k \in kept :
                 bld.assembled[1 + Rank(bld.history, bld.query, k)] = bld.history[k]

\* a history with an entry of each role that repeats the query, and entries
\* that are kept
C14_Witness ==
    /\ bld.pc = "built"
    /\ \E k \in 1..Len(bld.history) :
         bld.history[k].content = bld.query /\ bld.history[k].role = "user"
    /\ \E k \in 1..Len(bld.history) :
         bld.history[k].content = bld.query /\ bld.history[k].role = "assistant"
    /\ Len(bld.assembled) > 3

(***************************************************************************)
(* C15: when the assembled list has more than 21 entries, the result is   *)
(* the system prompt followed by the last 20 entries of the assembled     *)
(* list, contiguous and in their order; its first entry is the system     *)
(* prompt and its last entry is the current query.                        *)
(***************************************************************************)
C15_TrimKeepsTail ==
    (bld.pc = "built" /\ Len(bld.assembled) > 21) =>
        /\ Len(bld.messages) = 21
        /\ bld.messages[1] = Msg("system", SYSTEM_PROMPT)
        /\ bld.messages[21] = Msg("user", bld.query)
        /\ \A j \in 2..21 : bld.messages[j] = bld.assembled[Len(bld.assembled) - 21 + j]

\* a trimmed list from which entries that repeat the query were removed
C15_Witness ==
    /\ bld.pc = "built"
    /\ Len(bld.assembled) > 21
    /\ Len(bld.assembled) < Len(bld.history) + 2


(***************************************************************************)
(* C16: web_search takes the past-day filter when the query contains a    *)
(* now/today/current term or a financial term; otherwise the past-week    *)
(* filter when it contains a latest/recent/news/update term; otherwise    *)
(* the past-month filter; the matching ignores case.                      *)
(***************************************************************************)
HasTerm(terms, query) == \E term \in terms : In(term, Lower(query))

C16_DateFilter ==
    fn.pc = "searched" =>
        fn.tbs = IF HasTerm(now_words \cup financial_keywords, fn.query) THEN "qdr:d"
                 ELSE IF HasTerm(recent_words, fn.query) THEN "qdr:w"
                 ELSE "qdr:m"

\* a query with an upper-case week term and a mixed-case day term
C16_Witness ==
    /\ fn.pc = "searched"
    /\ fn.query = JoinSpace(<<<<"N", "E", "W", "S">>, <<"T", "o", "d", "a", "y">>>>)
    /\ fn.tbs = "qdr:d"

(***************************************************************************)
(* C17: web_search augments the query with the financial suffix when it   *)
(* has a financial term; otherwise with the news suffix when it has a     *)
(* latest/recent/news/update term; otherwise with the now suffix when it  *)
(* has a now/today/current term; otherwise with the default suffix: the   *)
(* keyword sets are those of the date filter.                             *)
(***************************************************************************)
C17_AugmentationSameSets ==
    fn.pc = "searched" =>
        fn.q = fn.query \o
               (IF HasTerm(financial_keywords, fn.query) THEN SuffixFinancial
                ELSE IF HasTerm(recent_words, fn.query) THEN SuffixNews
                ELSE IF HasTerm(now_words, fn.query) THEN SuffixNow
                ELSE SuffixDefault)

\* C17 with the set the code uses for the news suffix: news, update,
\* latest, breaking
C17_AugmentationOwnSet ==
    fn.pc = "searched" =>
        fn.q = fn.query \o
               (IF HasTerm(financial_keywords, fn.query) THEN SuffixFinancial
                ELSE IF HasTerm(news_words, fn.query) THEN SuffixNews
                ELSE IF HasTerm(now_words, fn.query) THEN SuffixNow
                ELSE SuffixDefault)

\* a query with a term of the week filter that is no news term, and one
\* with a news term that is no term of the week filter
C17_Witness ==
    /\ fn.pc = "searched"
    /\ \/ fn.query = <<"r", "e", "c", "e", "n", "t">> /\ fn.q = fn.query \o SuffixDefault
       \/ fn.query = <<"b", "r", "e", "a", "k", "i", "n", "g">> /\ fn.q = fn.query \o SuffixNews


(***************************************************************************)
(* C18: handling a chunk that holds speech leaves the session's silence   *)
(* counter at 0; handling a chunk that holds silence adds one to it, and  *)
(* when that reaches the threshold end-of-recording runs for the chunk    *)
(* and the counter is reset; while no chunk of the session is being       *)
(* handled the counter is below the threshold.                            *)
(***************************************************************************)
InChunkHandling(c) ==
    /\ ws.conn[c].message.type = "audio_chunk"
    /\ ws.conn[c].pc # "receive"

C18_ChunkStep(c) ==
    LET r == ws.conn[c]
        data == r.message.data
        count == ws.silence[r.session]
    IN  (r.pc = "chunk_vad" /\ ws'.conn[c].pc # "chunk_vad" /\ Loads(data)) =>
            IF Speech(data) THEN ws'.silence[r.session] = 0
            ELSE IF count + 1 >= VAD_SILENCE_THRESHOLD
            THEN ws'.conn[c].pc = "end_read" /\ ws'.conn[c].auto
            ELSE ws'.silence[r.session] = count + 1

C18_BelowThreshold ==
    \A s \in VSessions :
        (\A c \in Conns : ws.conn[c].session = s => ~InChunkHandling(c))
            => ws.silence[s] < VAD_SILENCE_THRESHOLD

C18_SilenceCounter ==
    [][C18_BelowThreshold /\ \A c \in Conns : C18_ChunkStep(c)]_vars

(***************************************************************************)
(* C19: when an end-of-recording returns, started by the threshold or by  *)
(* an end_recording message, with or without an error, the session's      *)
(* chunk list is empty and its silence counter is 0.                      *)
(***************************************************************************)
InEndRecording(c) == ws.conn[c].pc \in {"end_read", "end_delete", "end_process"}

DecodableBatch(audio_chunks) ==
    /\ audio_chunks # <<>>
    /\ \A k \in 1..Len(audio_chunks) :
         B64Valid(audio_chunks[k].data) /\ Loads(audio_chunks[k].data)
    /\ \A j, k \in 1..Len(audio_chunks) :
         sample_rate(audio_chunks[j].data) = sample_rate(audio_chunks[k].data)

C20_DecodableBatchTranscribed ==
    [][\A c \in Conns :
         (/\ ws.conn[c].pc = "end_process"
          /\ ws'.conn[c].pc = "receive"
          /\ DecodableBatch(ws.conn[c].audio_chunks))
             => ws'.transcribed = Append(ws.transcribed, BatchData(ws.conn[c].audio_chunks))]_vars


(***************************************************************************)
(* C21: an end-of-recording on a session with no buffered chunk sends one *)
(* status message to the client and makes no transcription call.          *)
(***************************************************************************)
EndReturns(c) == InEndRecording(c) /\ ws'.conn[c].pc = "receive"

MixedRates(audio_chunks) ==
    /\ \A k \in 1..Len(audio_chunks) :
         B64Valid(audio_chunks[k].data) /\ Loads(audio_chunks[k].data)
    /\ \E j, k \in 1..Len(audio_chunks) :
         sample_rate(audio_chunks[j].data) # sample_rate(audio_chunks[k].data)

BatchDiscarded(c) ==
    /\ ws'.conn[c].sent # ws.conn[c].sent
    /\ ws'.conn[c].sent[Len(ws'.conn[c].sent)].type = "error"
    /\ ws'.transcribed = ws.transcribed
    /\ \A k \in 1..Len(ws'.chunks[ws.conn[c].session]) :
         \A j \in 1..Len(ws.conn[c].audio_chunks) :
             ws'.chunks[ws.conn[c].session][k] # ws.conn[c].audio_chunks[j]

C24_OneRecordingPerSession ==
    \A s \in VSessions :
        \A j, k \in 1..Len(ws.chunks[s]) : ws.chunks[s][j].by = ws.chunks[s][k].by


(***************************************************************************)
(* C23: in every interleaving of concurrent turns on one session, a step  *)
(* never changes or removes what the stored list holds (the list before   *)
(* the step is a prefix of the list after it), the user message of a turn *)
(* is in the list exactly once from the moment it was appended, and so is *)
(* the assistant message of a turn that has persisted its response.       *)
(***************************************************************************)
UserBy(t) ==
    LET own == SelectSeq(redis[turn[t].session],
                         LAMBDA m : m.by = t /\ m.role = "user")
    IN  [k \in 1..Len(own) |-> own[k].content]

AppendedOnce(t) ==
    turn[t].session \in Sessions =>
        /\ UserBy(t) = IF turn[t].userStored THEN <<turn[t].query>> ELSE <<>>
        /\ Len(AssistantBy(t)) <= 1
        /\ (turn[t].pc = "done" /\ (turn[t].chan = "post" \/ NonBlank(turn[t].full)))
               => AssistantBy(t) = <<turn[t].full>>

C23_AppendOnly ==
    [][/\ \A s \in Sessions : IsPrefix(redis[s], redis'[s])
       /\ \A t \in Turns : AppendedOnce(t)]_vars

\* both turns are done, and the second turn stored its user message between
\* the two messages of the first
C23_Witness ==
    /\ \A t \in Turns : turn[t].pc = "done" /\ turn[t].session = "s1"
    /\ \E i, j, k \in 1..Len(redis["s1"]) :
         /\ i < j /\ j < k
         /\ redis["s1"][i].by = "t1" /\ redis["s1"][i].role = "user"
         /\ redis["s1"][j].by = "t2" /\ redis["s1"][j].role = "user"
         /\ redis["s1"][k].by = "t1" /\ redis["s1"][k].role = "assistant"


(***************************************************************************)
(* C25: for a limit in 1..100, GET /conversations/{session_id} whose read *)
(* of the store succeeds returns the last `limit` stored messages of the  *)
(* session (all of them when fewer are stored), in append order, with a   *)
(* count equal to the number returned.                                    *)
(***************************************************************************)
C25_LastLimitMessages ==
    (fn.pc = "returned" /\ fn.read_ok) =>
        /\ fn.response.status = 200
        /\ fn.response.messages =
               SubSeq(fn.list, IF Len(fn.list) > fn.limit THEN Len(fn.list) - fn.limit + 1 ELSE 1,
                      Len(fn.list))
        /\ fn.response.count = Len(fn.response.messages)


\* the decision call of turn t raises in this step
DecisionFails(t) == turn[t].pc = "decide" /\ turn'[t].pc = "error"

\* the except clause hands one error string to the caller: the return value
\* of handle_chat_request, one yield of a generator
OneErrorSurfaced(r0, r) ==
    IF r.chan = "post" THEN r.ret = <<ErrorTextPost>> /\ r.out = <<>>
    ELSE IF r.chan = "voice"
    THEN r.events = Append(r0.events, Event("text", ErrorTextVoice)) /\ r.out = <<>>
    ELSE r.out = <<ErrorTextStream>> /\ r.events = r0.events

\* nothing of the handler runs after its except clause
HandlerOver(r0, r) ==
    /\ r.pc = "error"
    /\ r.calls = r0.calls
    /\ r.ret = r0.ret
    /\ r.out \in {r0.out, <<>>}
    /\ r.chan = "voice" => r.events = r0.events

(***************************************************************************)
(* C26: when the tool-decision LLM call fails, the handler's except       *)
(* clause surfaces exactly one error string (the return value on POST,    *)
(* one yielded chunk on the generators), the decision call is the only    *)
(* LLM or tool call of the turn, and the handler does nothing afterwards. *)
(***************************************************************************)
C26_DecisionFailureContained ==
    [][\A t \in Turns :
          /\ DecisionFails(t) =>
                /\ turn'[t].calls = <<<<"llm", "decide">>>>
                /\ OneErrorSurfaced(turn[t], turn'[t])
          /\ turn[t].pc = "error" => HandlerOver(turn[t], turn'[t])]_vars

C26_Witness ==
    \E t \in Turns :
        /\ turn[t].chan = "sse" /\ turn[t].pc = "error" /\ turn[t].cpc = "closed"
        /\ turn[t].calls = <<<<"llm", "decide">>>>
        /\ turn[t].msg = NoMsg
        /\ turn[t].events = <<Event("data", ErrorTextStream), Event("end", "[DONE]")>>


(***************************************************************************)
(* C27: on /chatbot/stream-v2 a `timeout` event is the last event of the  *)
(* response: no data event and no `complete` event follows it.            *)
(***************************************************************************)
C27_TimeoutTerminal ==
    \A t \in Turns :
        \A k \in 1..Len(turn[t].events) :
            turn[t].events[k].event = "timeout" => k = Len(turn[t].events)


\* the payloads of the data events of a response, in order
DataPayloads(events) ==
    LET data == DataEvents(events)
    IN  [k \in 1..Len(data) |-> data[k].data]

\* /chatbot/stream ran to its end event with the client connected and the
\* handler persisted its response
SseCompleted(t) ==
    /\ turn[t].chan = "sse" /\ turn[t].cpc = "closed" /\ turn[t].pc = "done"
    /\ ~turn[t].detected
    /\ turn[t].events[Len(turn[t].events)] = Event("end", "[DONE]")
    /\ AssistantBy(t) # <<>>

(***************************************************************************)
(* C29: on /chatbot/stream, when the response completes normally, the     *)
(* concatenation of the payloads of its data events equals the assistant  *)
(* message persisted for the turn.                                        *)
(***************************************************************************)
C29_DataEqualsPersisted ==
    \A t \in Turns :
        SseCompleted(t) => Concat(DataPayloads(turn[t].events)) = AssistantBy(t)[1]


\* turn t processes one token delta in this step
DeltaStep(t) ==
    /\ turn[t].pc \in {"sum_iter", "chat_iter"}
    /\ turn'[t].d = turn[t].d + 1

\* the minimum size of the path the turn is on
PathMinimum(r) == IF r.msg.tool_calls # <<>> THEN SummaryMinFlush ELSE ChatMinFlush

\* the buffer has the minimum size or ends in '.', '!', '?' or a newline
Releasable(r, buffer) ==
    \/ Len(buffer) >= PathMinimum(r)
    \/ buffer # <<>> /\ buffer[Len(buffer)] \in {".", "!", "?", NL}

\* the token stream of turn t ends in this step
StreamEndStep(t) ==
    /\ turn[t].pc \in {"sum_iter", "chat_iter"}
    /\ turn'[t].pc \in {"persist", "save", "done"}

(***************************************************************************)
(* C28: in stream_chat_response, a token delta is added to the buffer and *)
(* the buffer is yielded and emptied if and only if its length reached    *)
(* the minimum (5 in the tool path, 8 in the no-tool path) or its last    *)
(* character is '.', '!', '?' or a newline; between deltas the buffer is  *)
(* empty or shorter than the minimum and not ending in such a character;  *)
(* the remainder is yielded when the token stream ends.                   *)
(***************************************************************************)
C28_BufferFlush ==
    /\ [](\A t \in Turns :
             turn[t].pc \in {"sum_iter", "chat_iter"} =>
                 turn[t].buf = <<>> \/ ~Releasable(turn[t], turn[t].buf))
    /\ [][\A t \in Turns :
             /\ DeltaStep(t) =>
                  LET buffer == turn[t].buf \o scn.deltas[turn[t].d]
                  IN  IF Releasable(turn[t], buffer)
                      THEN turn'[t].out = <<buffer>> /\ turn'[t].buf = <<>>
                      ELSE turn'[t].out = <<>> /\ turn'[t].buf = buffer
             /\ StreamEndStep(t) =>
                  /\ turn'[t].buf = <<>>
                  /\ turn'[t].out = IF turn[t].buf # <<>> THEN <<turn[t].buf>> ELSE <<>>]_vars

\* a tool-path buffer released at five characters with no punctuation
C28_Witness ==
    \E t \in Turns :
        /\ turn[t].pc = "sum_iter"
        /\ turn[t].msg.tool_calls # <<>>
        /\ turn[t].out = <<<<"a", "a", "b", "c", "d">>>>
        /\ turn[t].buf = <<>>


\* the event kinds of a response, in order
Kinds(events) == [k \in 1..Len(events) |-> events[k].event]

\* /chatbot/stream-v2 ran to its end with the handler finished, the client
\* connected, and no timeout, cancellation or error
Sse2Completed(t) ==
    /\ turn[t].chan = "sse2" /\ turn[t].cpc = "closed" /\ turn[t].pc = "done"
    /\ ~turn[t].detected
    /\ \A k \in 1..Len(turn[t].events) :
           turn[t].events[k].event \notin {"timeout", "cancelled", "error"}

\* the response of turn t gets a data event in this step
DataSent(t) ==
    /\ turn[t].chan = "sse2"
    /\ DataEvents(turn'[t].events) # DataEvents(turn[t].events)

\* the data event of the loop: buffer and chunk together have 100
\* characters or the chunk holds a newline
SentInLoop(t) ==
    /\ turn[t].cpc = "iter" /\ turn[t].out # <<>>
    /\ LET buffer == turn[t].cbuf \o turn[t].out[1]
       IN  /\ Len(buffer) >= 100 \/ \E k \in 1..Len(turn[t].out[1]) : turn[t].out[1][k] = NL
           /\ turn'[t].events = Append(turn[t].events, Event("data", buffer))

\* the data event after the loop: the remaining buffer, before `complete`
SentAsRemainder(t) ==
    /\ turn[t].cbuf # <<>>
    /\ turn'[t].cpc = "closed"
    /\ turn'[t].events = turn[t].events \o <<Event("data", turn[t].cbuf), Event("complete", "")>>

(***************************************************************************)
(* C30: on /chatbot/stream-v2 the first event is `start`; a data event is *)
(* sent only when the accumulated buffer reached 100 characters or the    *)
(* chunk just received contains a newline, or as the final remainder; on  *)
(* normal completion the payloads of the data events concatenate to the   *)
(* concatenation of the handler's chunks, and exactly one `complete`      *)
(* event follows them as the last event.                                  *)
(***************************************************************************)
C30_V2Batching ==
    /\ [](\A t \in Turns :
             /\ (turn[t].chan = "sse2" /\ turn[t].events # <<>>) =>
                    turn[t].events[1] = Event("start", "")
             /\ Sse2Completed(t) =>
                    /\ Concat(DataPayloads(turn[t].events)) = turn[t].full
                    /\ turn[t].events[Len(turn[t].events)] = Event("complete", "")
                    /\ Len(SelectSeq(Kinds(turn[t].events), LAMBDA e : e = "complete")) = 1)
    /\ [][\A t \in Turns : DataSent(t) => SentInLoop(t) \/ SentAsRemainder(t)]_vars

\* a completed response with a data event sent at 100 characters, one sent
\* on a newline and a final remainder
C30_Witness ==
    \E t \in Turns :
        /\ Sse2Completed(t)
        /\ turn[t].msg.tool_calls = <<>>
        /\ turn[t].events = <<Event("start", ""), Event("data", LongDelta),
                              Event("data", <<NL>>), Event("data", <<"a">>),
                              Event("complete", "")>>


\* the chunk of the message connection c handles has been pushed and its
\* handling goes on
ChunkPushed(c) ==
    /\ ws.conn[c].message.type = "audio_chunk"
    /\ \/ ws.conn[c].pc = "chunk_vad"
       \/ ws.conn[c].auto /\ ws.conn[c].pc \in {"end_read", "end_delete", "end_process"}

(***************************************************************************)
(* C31: an audio_chunk message that carries data is appended to the       *)
(* session's chunk list once; after the append the client is sent one     *)
(* `vad` event carrying the detection result, and the handling ends with   *)
(* one `chunk_received` event carrying the message's index, sent after    *)
(* the messages of an end-of-recording the chunk started.                 *)
(***************************************************************************)
C31_ChunkAnswered ==
    [][\A c \in Conns :
         LET r == ws.conn[c]
             sent == ws'.conn[c].sent
         IN  /\ (r.pc = "chunk_push" /\ ws'.conn[c].pc = "chunk_vad") =>
                    ws'.chunks[r.session] =
                        Append(ws.chunks[r.session],
                               [data |-> r.message.data, id |-> r.index, by |-> c])
             /\ (r.pc = "chunk_vad" /\ ws'.conn[c].pc # "chunk_vad") =>
                    /\ Len(sent) > Len(r.sent)
                    /\ sent[Len(r.sent) + 1] =
                           [type |-> "vad",
                            info |-> <<Loads(r.message.data) /\ Speech(r.message.data)>>]
             /\ (ChunkPushed(c) /\ ws'.conn[c].pc = "receive") =>
                    sent[Len(sent)] = [type |-> "chunk_received", info |-> <<r.index>>]]_vars


\* the chunks of a batch that base64 and torchaudio decode
DecodableChunks(audio_chunks) ==
    SelectSeq(BatchData(audio_chunks), LAMBDA data : B64Valid(data) /\ Loads(data))

SameRate(batch) ==
    \A j, k \in 1..Len(batch) : sample_rate(batch[j]) = sample_rate(batch[k])

(***************************************************************************)
(* C32: at end-of-recording on a non-empty batch, the chunks that fail to *)
(* decode are skipped and the chunks that decode, when they share a       *)
(* sample rate, are transcribed together; when no chunk decodes the       *)
(* client is sent a `status` message and no transcription call is made.  *)
(***************************************************************************)
C32_UndecodableSkipped ==
    [][\A c \in Conns :
         LET r == ws.conn[c]
             good == DecodableChunks(r.audio_chunks)
             sent == ws'.conn[c].sent
         IN  (r.pc = "end_process" /\ ws'.conn[c].pc = "receive" /\ ~r.auto
              /\ r.audio_chunks # <<>> /\ SameRate(good)) =>
                 IF good = <<>>
                 THEN /\ sent[Len(sent)].type = "status"
                      /\ ws'.transcribed = ws.transcribed
                 ELSE ws'.transcribed = Append(ws.transcribed, good)]_vars


\* the tool names turn t has executed, in the order of their calls
Executed(t) ==
    LET starts == SelectSeq(turn[t].calls, LAMBDA e : e[1] = "tool_start")
    IN  [k \in 1..Len(starts) |-> turn[t].msg.tool_calls[starts[k][2]].name]

(***************************************************************************)
(* C33: within one turn each tool name is executed at most once, also     *)
(* when the model's response names the same tool in two or more tool      *)
(* calls.                                                                 *)
(***************************************************************************)
C33_OneCallPerToolName ==
    \A t \in Turns :
        \A j, k \in 1..Len(Executed(t)) : Executed(t)[j] = Executed(t)[k] => j = k


(***************************************************************************)
(* C34: in every turn handler the archive insert precedes the history     *)
(* append of the assistant message: the session's list holds an assistant *)
(* message of a turn only if the archive holds the turn's document with   *)
(* the same text, and a turn whose archive insert failed appends no       *)
(* assistant message.                                                     *)
(***************************************************************************)
C34_ArchiveBeforeHistory ==
    /\ [](\A t \in Turns :
             (turn[t].pc # "idle" /\ AssistantBy(t) # <<>>) => ArchivedBy(t) = AssistantBy(t))
    /\ [][\A t \in Turns :
             (turn[t].pc = "save" /\ turn'[t].pc # "save" /\ mongo' = mongo) =>
                 /\ turn'[t].pc = "error"
                 /\ redis' = redis]_vars

\* a streamed turn has written its document and then its assistant message
C34_Witness ==
    \E t \in Turns :
        /\ turn[t].chan = "sse" /\ turn[t].pc = "done"
        /\ ArchivedBy(t) = <<turn[t].full>>
        /\ AssistantBy(t) = <<turn[t].full>>


(***************************************************************************)
(* C35: in every reachable state of a session's stored list, with DELETE  *)
(* requests on the session interleaved with its turns, every assistant    *)
(* message in the list is preceded by the user message of the same turn.  *)
(***************************************************************************)
C35_AssistantAfterUser ==
    \A s \in Sessions :
        \A k \in 1..Len(redis[s]) :
            redis[s][k].role = "assistant" =>
                \E j \in 1..(k - 1) :
                    redis[s][j].role = "user" /\ redis[s][j].by = redis[s][k].by


(***************************************************************************)
(* C36: on /chatbot/stream, a response that holds the "[DONE]" sentinel   *)
(* after at least one data event belongs to a turn whose assistant        *)
(* message is in the archive and in the history list.                     *)
(***************************************************************************)
C36_DoneMeansPersisted ==
    \A t \in Turns :
        (/\ turn[t].chan = "sse"
         /\ DataEvents(turn[t].events) # <<>>
         /\ \E k \in 1..Len(turn[t].events) : turn[t].events[k] = Event("end", "[DONE]")) =>
            /\ ArchivedBy(t) # <<>>
            /\ AssistantBy(t) # <<>>


\* the turn's user message is in the session's list
UserInHistory(t) ==
    \E k \in 1..Len(redis[turn[t].session]) :
        redis[turn[t].session][k] = Stored("user", turn[t].query, t)

NothingPersisted(t) == ArchivedBy(t) = <<>> /\ AssistantBy(t) = <<>>

CancelStep(c) ==
    /\ ws.conn[c].pc = "receive"
    /\ ws'.received = ws.received + 1
    /\ ws'.conn[c].index = ws'.received
    /\ ws'.conn[c].message.type = "cancel"

NoAudioStatus == [type |-> "status", info |-> <<"No audio received">>]

Range(seq) == {seq[k] : k \in 1..Len(seq)}

\* connection c deletes the session's chunk list in this step
DeleteStep(c) == ws.conn[c].pc = "end_delete" /\ ws'.conn[c].pc = "end_process"

(***************************************************************************)
(* C40: a chunk leaves a session's chunk list only in the delete of an    *)
(* end-of-recording whose read returned the chunk, under any interleaving *)
(* of the chunk and end-of-recording handling of connections that share   *)
(* the session id.                                                        *)
(***************************************************************************)
C40_RemovedMeansDrained ==
    [][\A s \in VSessions :
         \A chunk \in Range(ws.chunks[s]) \ Range(ws'.chunks[s]) :
             \E c \in Conns :
                 /\ ws.conn[c].session = s
                 /\ DeleteStep(c)
                 /\ chunk \in Range(ws.conn[c].audio_chunks)]_vars


====
